---- MODULE Spec2Model ----
(***************************************************************************)
(* Norwegian tax calculator (hvalfangst/ntc).                              *)
(*                                                                         *)
(* The engine (src/tax_calculator.rs) is a pure function from a            *)
(* TaxCalculationInput to a TaxCalculationResult; the TaxCalculator        *)
(* component (src/components/tax_calculator_component.rs) holds the input  *)
(* as twelve signals and recomputes the result from them.                  *)
(*                                                                         *)
(* Numbers.  The code computes in f64.  The model computes the same        *)
(* expressions exactly, in decimal fixed point: an amount is a record      *)
(* [w, f] standing for w + f / FRAC with 0 <= f < FRAC (w is the floor, so *)
(* every amount has one representation and = is numeric equality).  Rates  *)
(* are integers in hundredths of a percent (10.0 % = 1000, 0.077 = 770).   *)
(* Every product the engine forms on whole-krone inputs has at most eight  *)
(* decimals, so no rounding happens in the model; f64 rounding error,      *)
(* NaN and the infinities are outside the model.                           *)
(***************************************************************************)
EXTENDS Integers, Sequences, FiniteSets, TLC

VARIABLES gross_income, entity_type, municipal_tax_rate, county_tax_rate,
          church_tax_rate, is_church_member, allowable_deductions, active_tab,
          dividend_income, capital_gains, investment_wealth, business_expenses,
          call_fn, call_arg, call_ret

vars == <<gross_income, entity_type, municipal_tax_rate, county_tax_rate,
          church_tax_rate, is_church_member, allowable_deductions, active_tab,
          dividend_income, capital_gains, investment_wealth, business_expenses,
          call_fn, call_arg, call_ret>>

signals == <<gross_income, entity_type, municipal_tax_rate, county_tax_rate,
             church_tax_rate, is_church_member, allowable_deductions, active_tab,
             dividend_income, capital_gains, investment_wealth, business_expenses>>

-----------------------------------------------------------------------------
(* Exact decimal arithmetic standing for f64 arithmetic.                   *)

\* rates are in hundredths of a percent
RATE_DEN == 100 * 100

FRAC == RATE_DEN * RATE_DEN

FxInt(n) == [w |-> n, f |-> 0]

Zero == FxInt(0)

FxAdd(a, b) ==
    LET s == a.f + b.f
    IN  [w |-> a.w + b.w + (s \div FRAC), f |-> s % FRAC]

FxNeg(a) ==
    IF a.f = 0 THEN [w |-> 0 - a.w, f |-> 0]
               ELSE [w |-> 0 - a.w - 1, f |-> FRAC - a.f]

FxSub(a, b) == FxAdd(a, FxNeg(b))

FxLt(a, b) == a.w < b.w \/ (a.w = b.w /\ a.f < b.f)

FxLe(a, b) == a = b \/ FxLt(a, b)

FxGt(a, b) == FxLt(b, a)

\* f64::max(self, 0.0)
FxMax0(a) == IF FxLt(a, Zero) THEN Zero ELSE a

\* f64::min
FxMin(a, b) == IF FxLt(b, a) THEN b ELSE a

\* a * (rate / RATE_DEN), the whole part split so that no intermediate
\* product exceeds 32 bits
FxMulRate(a, rate) ==
    LET q  == a.w \div RATE_DEN
        r  == a.w % RATE_DEN
        rn == r * rate
        lo == (a.f \div RATE_DEN) * rate + ((a.f % RATE_DEN) * rate) \div RATE_DEN
    IN  FxAdd([w |-> q * rate + (rn \div RATE_DEN), f |-> (rn % RATE_DEN) * RATE_DEN],
              [w |-> lo \div FRAC, f |-> lo % FRAC])

-----------------------------------------------------------------------------
(* src/tax_calculator.rs                                                   *)

EntityType == {"Individual", "Corporation", "Partnership", "SoleProprietorship"}

PERSONAL_ALLOWANCE_2024 == 69100
CORPORATE_TAX_RATE_2024 == 2200
NATIONAL_INSURANCE_RATE_2024 == 770
NATIONAL_INSURANCE_RATE_ENK_2024 == 1090
INVESTMENT_TAX_RATE_2024 == 3784
WEALTH_TAX_RATE_2024 == 100
WEALTH_TAX_THRESHOLD_2024 == 2000000
RISK_FREE_RATE_2024 == 172

STATE_TAX_BRACKETS ==
    << <<208050, 170>>, <<292850, 400>>, <<670000, 1360>>,
       <<937900, 1660>>, <<1350000, 1760>> >>

\* Option<f64>
None == <<>>
Some(x) == <<x>>

TaxBreakdownItem(d, a, r) == [description |-> d, amount |-> a, rate |-> r]

\* format!("{:.0}", x): the nearest whole number, ties to even, of |x|
RoundMagnitude(x) ==
    LET m == IF FxLt(x, Zero) THEN FxNeg(x) ELSE x
    IN  IF 2 * m.f < FRAC THEN m.w
        ELSE IF 2 * m.f > FRAC THEN m.w + 1
        ELSE IF m.w % 2 = 0 THEN m.w ELSE m.w + 1

DigitChars == <<"0", "1", "2", "3", "4", "5", "6", "7", "8", "9">>

RECURSIVE Digits(_)
Digits(n) ==
    IF n < 10 THEN <<DigitChars[n + 1]>>
    ELSE Append(Digits(n \div 10), DigitChars[(n % 10) + 1])

\* format!("{:.0}", amount) as a sequence of characters: a "-" for a
\* negative amount, then the digits of the rounded magnitude
FormatFixed0(amount) ==
    (IF FxLt(amount, Zero) THEN <<"-">> ELSE <<>>) \o Digits(RoundMagnitude(amount))

\* .rev()
RECURSIVE Rev(_)
Rev(s) == IF s = <<>> THEN <<>> ELSE Append(Rev(Tail(s)), Head(s))

\* .chunks(3)
RECURSIVE Chunks3(_)
Chunks3(s) ==
    IF Len(s) <= 3 THEN (IF s = <<>> THEN <<>> ELSE <<s>>)
    ELSE <<SubSeq(s, 1, 3)>> \o Chunks3(SubSeq(s, 4, Len(s)))

\* .join(" ")
RECURSIVE JoinSpace(_)
JoinSpace(chunks) ==
    IF chunks = <<>> THEN <<>>
    ELSE IF Len(chunks) = 1 THEN chunks[1]
    ELSE chunks[1] \o <<" ">> \o JoinSpace(Tail(chunks))

\* variant: grouped from the most significant end
format_currency_from_front(amount) == JoinSpace(Chunks3(FormatFixed0(amount)))

format_currency(amount) == Rev(JoinSpace(Chunks3(Rev(FormatFixed0(amount)))))

\* the characters of a String as one string value
RECURSIVE Str(_)
Str(cs) == IF cs = <<>> THEN "" ELSE Head(cs) \o Str(Tail(cs))

\* variant: every bracket taxed up to the income
BracketWidth_uncapped(threshold, income) == FxSub(income, FxInt(threshold))

\* the width of the bracket starting at threshold: the distance to the first
\* later threshold of the table, or income - threshold for the last one
BracketWidth(threshold, income) ==
    LET later == {j \in 1..Len(STATE_TAX_BRACKETS) : STATE_TAX_BRACKETS[j][1] > threshold}
    IN  IF later = {} THEN FxSub(income, FxInt(threshold))
        ELSE LET j == CHOOSE k \in later : \A l \in later : k <= l
             IN  FxInt(STATE_TAX_BRACKETS[j][1] - threshold)

\* the for loop of calculate_state_tax from bracket i on
RECURSIVE StateTaxLoop(_, _, _, _)
StateTaxLoop(i, income, state_tax, breakdown) ==
    IF i > Len(STATE_TAX_BRACKETS) THEN [value |-> state_tax, breakdown |-> breakdown]
    ELSE LET threshold == STATE_TAX_BRACKETS[i][1]
             rate      == STATE_TAX_BRACKETS[i][2]
         IN  IF FxGt(income, FxInt(threshold))
             THEN LET taxable_in_bracket ==
                          FxMin(FxSub(income, FxInt(threshold)),
                                BracketWidth(threshold, income))
                      tax_in_bracket == FxMulRate(taxable_in_bracket, rate)
                  IN  StateTaxLoop(i + 1, income, FxAdd(state_tax, tax_in_bracket),
                          Append(breakdown, TaxBreakdownItem(
                              "Statsskatt (over " \o Str(format_currency(FxInt(threshold))) \o " NOK)",
                              tax_in_bracket, Some(rate))))
             ELSE StateTaxLoop(i + 1, income, state_tax, breakdown)

\* variant: only the brackets from the highest one reached are swept
calculate_state_tax_from_reached_bracket(income, breakdown) ==
    LET reached == {i \in 1..Len(STATE_TAX_BRACKETS) :
                       FxGt(income, FxInt(STATE_TAX_BRACKETS[i][1]))}
    IN  IF reached = {} THEN [value |-> Zero, breakdown |-> breakdown]
        ELSE StateTaxLoop(CHOOSE k \in reached : \A l \in reached : l <= k,
                          income, Zero, breakdown)

calculate_state_tax(income, breakdown) ==
    StateTaxLoop(1, income, Zero, breakdown)

\* variant: the taxable investment income not clamped at zero
calculate_investment_tax_unclamped(input, breakdown) ==
    LET total_investment_income == FxInt(input.dividend_income + input.capital_gains)
    IN  IF FxLe(total_investment_income, Zero)
        THEN [value |-> Zero, breakdown |-> breakdown]
        ELSE LET risk_free_allowance ==
                     FxMulRate(FxInt(input.investment_wealth), RISK_FREE_RATE_2024)
                 taxable_investment_income ==
                     FxSub(total_investment_income, risk_free_allowance)
                 b1 == IF FxGt(risk_free_allowance, Zero)
                       THEN Append(breakdown, TaxBreakdownItem("Risikofritt fradrag",
                                FxNeg(risk_free_allowance), Some(RISK_FREE_RATE_2024)))
                       ELSE breakdown
                 investment_tax == FxMulRate(taxable_investment_income, INVESTMENT_TAX_RATE_2024)
                 b2 == IF FxGt(investment_tax, Zero)
                       THEN Append(b1, TaxBreakdownItem("Skatt paa aksjeutbytte og gevinst",
                                investment_tax, Some(INVESTMENT_TAX_RATE_2024)))
                       ELSE b1
             IN  [value |-> investment_tax, breakdown |-> b2]

calculate_investment_tax(input, breakdown) ==
    LET total_investment_income == FxInt(input.dividend_income + input.capital_gains)
    IN  IF FxLe(total_investment_income, Zero)
        THEN [value |-> Zero, breakdown |-> breakdown]
        ELSE LET risk_free_allowance ==
                     FxMulRate(FxInt(input.investment_wealth), RISK_FREE_RATE_2024)
                 taxable_investment_income ==
                     FxMax0(FxSub(total_investment_income, risk_free_allowance))
                 b1 == IF FxGt(risk_free_allowance, Zero)
                       THEN Append(breakdown, TaxBreakdownItem("Risikofritt fradrag",
                                FxNeg(risk_free_allowance), Some(RISK_FREE_RATE_2024)))
                       ELSE breakdown
                 investment_tax == FxMulRate(taxable_investment_income, INVESTMENT_TAX_RATE_2024)
                 b2 == IF FxGt(investment_tax, Zero)
                       THEN Append(b1, TaxBreakdownItem("Skatt paa aksjeutbytte og gevinst",
                                investment_tax, Some(INVESTMENT_TAX_RATE_2024)))
                       ELSE b1
             IN  [value |-> investment_tax, breakdown |-> b2]

\* variant: the personal risk-free allowance applied to the total
calculate_corporate_investment_tax_with_allowance(input, breakdown) ==
    LET total_investment_income == FxInt(input.dividend_income + input.capital_gains)
    IN  IF FxLe(total_investment_income, Zero)
        THEN [value |-> Zero, breakdown |-> breakdown]
        ELSE LET risk_free_allowance == FxMulRate(FxInt(input.investment_wealth),
                                                  RISK_FREE_RATE_2024)
                 taxable_portion ==
                     FxMulRate(FxMax0(FxSub(total_investment_income, risk_free_allowance)), 300)
                 investment_tax == FxMulRate(taxable_portion, CORPORATE_TAX_RATE_2024)
             IN  [value |-> investment_tax,
                  breakdown |->
                      IF FxGt(investment_tax, Zero)
                      THEN Append(breakdown, TaxBreakdownItem(
                               "Deltakermodellen - 3% skattepliktig", investment_tax, Some(66)))
                      ELSE breakdown]

calculate_corporate_investment_tax(input, breakdown) ==
    LET total_investment_income == FxInt(input.dividend_income + input.capital_gains)
    IN  IF FxLe(total_investment_income, Zero)
        THEN [value |-> Zero, breakdown |-> breakdown]
        ELSE LET taxable_portion == FxMulRate(total_investment_income, 300)
                 investment_tax == FxMulRate(taxable_portion, CORPORATE_TAX_RATE_2024)
             IN  [value |-> investment_tax,
                  breakdown |->
                      IF FxGt(investment_tax, Zero)
                      THEN Append(breakdown, TaxBreakdownItem(
                               "Deltakermodellen - 3% skattepliktig", investment_tax, Some(66)))
                      ELSE breakdown]

\* variant: the 20% valuation rebate left out
calculate_wealth_tax_without_rebate(input, breakdown) ==
    LET total_wealth == FxInt(input.investment_wealth)
    IN  IF FxLe(total_wealth, FxInt(WEALTH_TAX_THRESHOLD_2024))
        THEN [value |-> Zero, breakdown |-> breakdown]
        ELSE LET taxable_wealth == FxSub(total_wealth, FxInt(WEALTH_TAX_THRESHOLD_2024))
                 wealth_tax == FxMulRate(taxable_wealth, WEALTH_TAX_RATE_2024)
             IN  [value |-> wealth_tax,
                  breakdown |->
                      IF FxGt(wealth_tax, Zero)
                      THEN Append(breakdown, TaxBreakdownItem(
                               "Formueskatt (20% rabatt paa aksjer)", wealth_tax,
                               Some(WEALTH_TAX_RATE_2024)))
                      ELSE breakdown]

\* variant: the wealth-tax item pushed for every input
calculate_wealth_tax_always_itemised(input, breakdown) ==
    LET total_wealth == FxInt(input.investment_wealth)
        taxable_wealth == FxMax0(FxSub(total_wealth, FxInt(WEALTH_TAX_THRESHOLD_2024)))
        discounted_wealth == FxMulRate(taxable_wealth, 8000)
        wealth_tax == FxMulRate(discounted_wealth, WEALTH_TAX_RATE_2024)
    IN  [value |-> wealth_tax,
         breakdown |-> Append(breakdown, TaxBreakdownItem(
                           "Formueskatt (20% rabatt paa aksjer)", wealth_tax,
                           Some(WEALTH_TAX_RATE_2024)))]

calculate_wealth_tax(input, breakdown) ==
    LET total_wealth == FxInt(input.investment_wealth)
    IN  IF FxLe(total_wealth, FxInt(WEALTH_TAX_THRESHOLD_2024))
        THEN [value |-> Zero, breakdown |-> breakdown]
        ELSE LET taxable_wealth == FxSub(total_wealth, FxInt(WEALTH_TAX_THRESHOLD_2024))
                 discounted_wealth == FxMulRate(taxable_wealth, 8000)
                 wealth_tax == FxMulRate(discounted_wealth, WEALTH_TAX_RATE_2024)
             IN  [value |-> wealth_tax,
                  breakdown |->
                      IF FxGt(wealth_tax, Zero)
                      THEN Append(breakdown, TaxBreakdownItem(
                               "Formueskatt (20% rabatt paa aksjer)", wealth_tax,
                               Some(WEALTH_TAX_RATE_2024)))
                      ELSE breakdown]

TaxCalculationResult(gross, personal_allowance, taxable_income, municipal_tax, county_tax, church_tax, state_tax, corporate_tax, national_insurance, investment_tax, wealth_tax, total_tax, net_income, effective_tax_rate, breakdown) ==
    [gross_income |-> gross,
     personal_allowance |-> personal_allowance,
     taxable_income |-> taxable_income,
     municipal_tax |-> municipal_tax,
     county_tax |-> county_tax,
     church_tax |-> church_tax,
     state_tax |-> state_tax,
     corporate_tax |-> corporate_tax,
     national_insurance |-> national_insurance,
     investment_tax |-> investment_tax,
     wealth_tax |-> wealth_tax,
     total_tax |-> total_tax,
     net_income |-> net_income,
     effective_tax_rate |-> effective_tax_rate,
     breakdown |-> breakdown]

\* An effective rate is kept as the exact quotient num / den (times 100);
\* the literal 0.0 is 0 / 1.
RateOf(total_tax, total_gross_income) == [num |-> total_tax, den |-> total_gross_income]

RateZero == [num |-> Zero, den |-> FxInt(1)]

\* variant: the subtraction without max(0.0)
individual_taxable_income_unclamped(input) ==
    FxInt(input.gross_income - PERSONAL_ALLOWANCE_2024 - input.allowable_deductions)

\* variant: business expenses subtracted in the Individual strategy
individual_taxable_income_less_expenses(input) ==
    FxMax0(FxInt(input.gross_income - input.business_expenses - PERSONAL_ALLOWANCE_2024
                 - input.allowable_deductions))

individual_taxable_income(input) ==
    FxMax0(FxInt(input.gross_income - PERSONAL_ALLOWANCE_2024 - input.allowable_deductions))

individual_total_tax(municipal_tax, county_tax, church_tax, state_tax, national_insurance, investment_tax, wealth_tax) ==
    FxAdd(FxAdd(FxAdd(FxAdd(FxAdd(FxAdd(municipal_tax, county_tax), church_tax),
          state_tax), national_insurance), investment_tax), wealth_tax)

individual_total_gross_income(input) ==
    FxInt(input.gross_income + input.dividend_income + input.capital_gains)

\* variant: the quotient taken without the guard
individual_effective_tax_rate_unguarded(total_tax, total_gross_income) ==
    RateOf(total_tax, total_gross_income)

individual_effective_tax_rate(total_tax, total_gross_income) ==
    IF FxGt(total_gross_income, Zero)
    THEN RateOf(total_tax, total_gross_income)
    ELSE RateZero

\* variant: the investment tax left out of the total
corporate_total_tax_without_investment(corporate_tax, investment_tax) == corporate_tax

corporate_total_tax(corporate_tax, investment_tax) == FxAdd(corporate_tax, investment_tax)

corporate_total_gross_income(input) ==
    FxInt(input.gross_income + input.dividend_income + input.capital_gains)

corporate_effective_tax_rate(total_tax, total_gross_income) ==
    IF FxGt(total_gross_income, Zero)
    THEN RateOf(total_tax, total_gross_income)
    ELSE RateZero

\* variant: state tax left out of the total
enk_total_tax_without_state_tax(municipal_tax, county_tax, church_tax, state_tax, national_insurance, investment_tax, wealth_tax) ==
    FxAdd(FxAdd(FxAdd(FxAdd(FxAdd(municipal_tax, county_tax), church_tax),
          national_insurance), investment_tax), wealth_tax)

enk_total_tax(municipal_tax, county_tax, church_tax, state_tax, national_insurance, investment_tax, wealth_tax) ==
    FxAdd(FxAdd(FxAdd(FxAdd(FxAdd(FxAdd(municipal_tax, county_tax), church_tax),
          state_tax), national_insurance), investment_tax), wealth_tax)

\* variant: the nominal gross income echoed
enk_total_gross_income_nominal(input) == FxInt(input.gross_income)

enk_total_gross_income(input) ==
    FxInt(input.gross_income + input.dividend_income + input.capital_gains)

enk_effective_tax_rate(total_tax, total_gross_income) ==
    IF FxGt(total_gross_income, Zero)
    THEN RateOf(total_tax, total_gross_income)
    ELSE RateZero

individual_church_tax_always_itemised(input, taxable_income, breakdown) ==
    LET tax == IF input.is_church_member
               THEN FxMulRate(taxable_income, input.church_tax_rate)
               ELSE Zero
    IN  [value |-> tax,
         breakdown |-> Append(breakdown,
             TaxBreakdownItem("Kirkeskatt", tax, Some(input.church_tax_rate)))]

individual_church_tax(input, taxable_income, breakdown) ==
    IF input.is_church_member
    THEN LET tax == FxMulRate(taxable_income, input.church_tax_rate)
         IN  [value |-> tax,
              breakdown |-> Append(breakdown,
                  TaxBreakdownItem("Kirkeskatt", tax, Some(input.church_tax_rate)))]
    ELSE [value |-> Zero, breakdown |-> breakdown]

individual_state_tax_on_taxable_income(input, breakdown) ==
    calculate_state_tax(individual_taxable_income(input), breakdown)

individual_state_tax(input, breakdown) ==
    calculate_state_tax(FxInt(input.gross_income), breakdown)

individual_national_insurance(input) ==
    FxMulRate(FxInt(input.gross_income), NATIONAL_INSURANCE_RATE_2024)

\* variant: the wealth-tax helper called before the investment-tax helper
calculate_individual_tax_wealth_first(input) ==
    LET personal_allowance == FxInt(PERSONAL_ALLOWANCE_2024)
        taxable_income == individual_taxable_income(input)
        b1 == <<TaxBreakdownItem("Personfradrag", FxNeg(personal_allowance), None)>>
        b2 == IF input.allowable_deductions > 0
              THEN Append(b1, TaxBreakdownItem("Fradrag", FxInt(0 - input.allowable_deductions), None))
              ELSE b1
        municipal_tax == FxMulRate(taxable_income, input.municipal_tax_rate)
        b3 == Append(b2, TaxBreakdownItem("Kommuneskatt", municipal_tax, Some(input.municipal_tax_rate)))
        county_tax == FxMulRate(taxable_income, input.county_tax_rate)
        b4 == Append(b3, TaxBreakdownItem("Fylkeskatt", county_tax, Some(input.county_tax_rate)))
        ch == individual_church_tax(input, taxable_income, b4)
        church_tax == ch.value
        b5 == ch.breakdown
        st == individual_state_tax(input, b5)
        state_tax == st.value
        national_insurance == individual_national_insurance(input)
        b6 == Append(st.breakdown, TaxBreakdownItem("Trygdeavgift", national_insurance,
                                                    Some(NATIONAL_INSURANCE_RATE_2024)))
        wt == calculate_wealth_tax(input, b6)
        wealth_tax == wt.value
        it == calculate_investment_tax(input, wt.breakdown)
        investment_tax == it.value
        total_tax == individual_total_tax(municipal_tax, county_tax, church_tax, state_tax,
                                  national_insurance, investment_tax, wealth_tax)
        total_gross_income == individual_total_gross_income(input)
        net_income == FxSub(total_gross_income, total_tax)
        effective_tax_rate == individual_effective_tax_rate(total_tax, total_gross_income)
    IN  TaxCalculationResult(total_gross_income, personal_allowance, taxable_income,
               municipal_tax, county_tax, church_tax, state_tax, Zero, national_insurance,
               investment_tax, wealth_tax, total_tax, net_income, effective_tax_rate,
               it.breakdown)

calculate_individual_tax(input) ==
    LET personal_allowance == FxInt(PERSONAL_ALLOWANCE_2024)
        taxable_income == individual_taxable_income(input)
        b1 == <<TaxBreakdownItem("Personfradrag", FxNeg(personal_allowance), None)>>
        b2 == IF input.allowable_deductions > 0
              THEN Append(b1, TaxBreakdownItem("Fradrag", FxInt(0 - input.allowable_deductions), None))
              ELSE b1
        municipal_tax == FxMulRate(taxable_income, input.municipal_tax_rate)
        b3 == Append(b2, TaxBreakdownItem("Kommuneskatt", municipal_tax, Some(input.municipal_tax_rate)))
        county_tax == FxMulRate(taxable_income, input.county_tax_rate)
        b4 == Append(b3, TaxBreakdownItem("Fylkeskatt", county_tax, Some(input.county_tax_rate)))
        ch == individual_church_tax(input, taxable_income, b4)
        church_tax == ch.value
        b5 == ch.breakdown
        st == individual_state_tax(input, b5)
        state_tax == st.value
        national_insurance == individual_national_insurance(input)
        b6 == Append(st.breakdown, TaxBreakdownItem("Trygdeavgift", national_insurance,
                                                    Some(NATIONAL_INSURANCE_RATE_2024)))
        it == calculate_investment_tax(input, b6)
        investment_tax == it.value
        wt == calculate_wealth_tax(input, it.breakdown)
        wealth_tax == wt.value
        total_tax == individual_total_tax(municipal_tax, county_tax, church_tax, state_tax,
                                  national_insurance, investment_tax, wealth_tax)
        total_gross_income == individual_total_gross_income(input)
        net_income == FxSub(total_gross_income, total_tax)
        effective_tax_rate == individual_effective_tax_rate(total_tax, total_gross_income)
    IN  TaxCalculationResult(total_gross_income, personal_allowance, taxable_income,
               municipal_tax, county_tax, church_tax, state_tax, Zero, national_insurance,
               investment_tax, wealth_tax, total_tax, net_income, effective_tax_rate,
               wt.breakdown)

corporate_taxable_income_unclamped(input) ==
    FxInt(input.gross_income - input.allowable_deductions)

\* variant: business expenses subtracted in the Corporation strategy
corporate_taxable_income_less_expenses(input) ==
    FxMax0(FxInt(input.gross_income - input.business_expenses - input.allowable_deductions))

corporate_taxable_income(input) ==
    FxMax0(FxInt(input.gross_income - input.allowable_deductions))

calculate_corporate_tax(input) ==
    LET taxable_income == corporate_taxable_income(input)
        b1 == IF input.allowable_deductions > 0
              THEN <<TaxBreakdownItem("Fradrag", FxInt(0 - input.allowable_deductions), None)>>
              ELSE <<>>
        corporate_tax == FxMulRate(taxable_income, CORPORATE_TAX_RATE_2024)
        b2 == Append(b1, TaxBreakdownItem("Selskapsskatt", corporate_tax,
                                          Some(CORPORATE_TAX_RATE_2024)))
        it == calculate_corporate_investment_tax(input, b2)
        investment_tax == it.value
        total_tax == corporate_total_tax(corporate_tax, investment_tax)
        total_gross_income == corporate_total_gross_income(input)
        net_income == FxSub(total_gross_income, total_tax)
        effective_tax_rate == corporate_effective_tax_rate(total_tax, total_gross_income)
    IN  TaxCalculationResult(total_gross_income, Zero, taxable_income, Zero, Zero, Zero,
               Zero, corporate_tax, Zero, investment_tax, Zero, total_tax, net_income,
               effective_tax_rate, it.breakdown)

\* variant: the marker pushed at the end instead of inserted at 0
calculate_partnership_tax_marker_last(input) ==
    LET result == calculate_individual_tax(input)
    IN  [result EXCEPT !.breakdown =
            Append(result.breakdown,
                   TaxBreakdownItem("Deltakerlignet selskap - beskattes som personinntekt",
                                    Zero, None))]

calculate_partnership_tax(input) ==
    LET result == calculate_individual_tax(input)
    IN  [result EXCEPT !.breakdown =
            <<TaxBreakdownItem("Deltakerlignet selskap - beskattes som personinntekt", Zero, None)>>
            \o result.breakdown]

enk_taxable_income_single_clamp(input) ==
    FxMax0(FxInt(input.gross_income - input.business_expenses - input.allowable_deductions))

\* variant: the personal allowance subtracted in the sole-proprietorship strategy
enk_taxable_income_less_allowance(input) ==
    LET business_profit == FxMax0(FxInt(input.gross_income - input.business_expenses))
    IN  FxMax0(FxSub(FxSub(business_profit, FxInt(PERSONAL_ALLOWANCE_2024)),
                     FxInt(input.allowable_deductions)))

enk_taxable_income(input) ==
    LET business_profit == FxMax0(FxInt(input.gross_income - input.business_expenses))
    IN  FxMax0(FxSub(business_profit, FxInt(input.allowable_deductions)))

\* variant: the allowable-deductions item pushed before the expense item
enk_deduction_items_deductions_first(input) ==
    LET b0 == <<TaxBreakdownItem("ENK - Enkeltpersonforetak", Zero, None)>>
        b1 == IF input.allowable_deductions > 0
              THEN Append(b0, TaxBreakdownItem("Fradrag", FxInt(0 - input.allowable_deductions), None))
              ELSE b0
    IN  IF input.business_expenses > 0
        THEN Append(b1, TaxBreakdownItem("Driftskostnader",
                                         FxInt(0 - input.business_expenses), None))
        ELSE b1

enk_deduction_items(input) ==
    LET b0 == <<TaxBreakdownItem("ENK - Enkeltpersonforetak", Zero, None)>>
        b1 == IF input.business_expenses > 0
              THEN Append(b0, TaxBreakdownItem("Driftskostnader",
                                               FxInt(0 - input.business_expenses), None))
              ELSE b0
    IN  IF input.allowable_deductions > 0
        THEN Append(b1, TaxBreakdownItem("Fradrag", FxInt(0 - input.allowable_deductions), None))
        ELSE b1

enk_church_tax(input, taxable_income, breakdown) ==
    IF input.is_church_member
    THEN LET tax == FxMulRate(taxable_income, input.church_tax_rate)
         IN  [value |-> tax,
              breakdown |-> Append(breakdown,
                  TaxBreakdownItem("Kirkeskatt", tax, Some(input.church_tax_rate)))]
    ELSE [value |-> Zero, breakdown |-> breakdown]

enk_state_tax(input, breakdown) ==
    calculate_state_tax(FxInt(input.gross_income), breakdown)

enk_national_insurance_on_profit(input) ==
    FxMulRate(FxMax0(FxInt(input.gross_income - input.business_expenses)),
              NATIONAL_INSURANCE_RATE_ENK_2024)

enk_national_insurance(input) ==
    FxMulRate(FxInt(input.gross_income), NATIONAL_INSURANCE_RATE_ENK_2024)

calculate_enk_tax(input) ==
    LET taxable_income == enk_taxable_income(input)
        b2 == enk_deduction_items(input)
        municipal_tax == FxMulRate(taxable_income, input.municipal_tax_rate)
        b3 == Append(b2, TaxBreakdownItem("Kommuneskatt", municipal_tax, Some(input.municipal_tax_rate)))
        county_tax == FxMulRate(taxable_income, input.county_tax_rate)
        b4 == Append(b3, TaxBreakdownItem("Fylkeskatt", county_tax, Some(input.county_tax_rate)))
        ch == enk_church_tax(input, taxable_income, b4)
        church_tax == ch.value
        b5 == ch.breakdown
        st == enk_state_tax(input, b5)
        state_tax == st.value
        national_insurance == enk_national_insurance(input)
        b6 == Append(st.breakdown, TaxBreakdownItem("Trygdeavgift (ENK)", national_insurance,
                                                    Some(NATIONAL_INSURANCE_RATE_ENK_2024)))
        it == calculate_investment_tax(input, b6)
        investment_tax == it.value
        wt == calculate_wealth_tax(input, it.breakdown)
        wealth_tax == wt.value
        total_tax == enk_total_tax(municipal_tax, county_tax, church_tax, state_tax,
                                  national_insurance, investment_tax, wealth_tax)
        total_gross_income == enk_total_gross_income(input)
        net_income == FxSub(total_gross_income, total_tax)
        effective_tax_rate == enk_effective_tax_rate(total_tax, total_gross_income)
    IN  TaxCalculationResult(total_gross_income, Zero, taxable_income, municipal_tax,
               county_tax, church_tax, state_tax, Zero, national_insurance, investment_tax,
               wealth_tax, total_tax, net_income, effective_tax_rate, wt.breakdown)

calculate_tax(input) ==
    CASE input.entity_type = "Individual" -> calculate_individual_tax(input)
      [] input.entity_type = "Corporation" -> calculate_corporate_tax(input)
      [] input.entity_type = "Partnership" -> calculate_partnership_tax(input)
      [] input.entity_type = "SoleProprietorship" -> calculate_enk_tax(input)

-----------------------------------------------------------------------------
(* The copy of NorwegianTaxCalculator in lib.rs.                           *)

lib_PERSONAL_ALLOWANCE_2024 == 69100
lib_CORPORATE_TAX_RATE_2024 == 2200
lib_NATIONAL_INSURANCE_RATE_2024 == 770
lib_NATIONAL_INSURANCE_RATE_ENK_2024 == 1090
lib_INVESTMENT_TAX_RATE_2024 == 3784
lib_WEALTH_TAX_RATE_2024 == 100
lib_WEALTH_TAX_THRESHOLD_2024 == 2000000
lib_RISK_FREE_RATE_2024 == 172

lib_STATE_TAX_BRACKETS ==
    << <<208050, 170>>, <<292850, 400>>, <<670000, 1360>>,
       <<937900, 1660>>, <<1350000, 1760>> >>

lib_TaxBreakdownItem(d, a, r) == [description |-> d, amount |-> a, rate |-> r]

lib_format_currency(amount) == Rev(JoinSpace(Chunks3(Rev(FormatFixed0(amount)))))

\* the width of the bracket starting at threshold: the distance to the first
\* later threshold of the table, or income - threshold for the last one
lib_BracketWidth(threshold, income) ==
    LET later == {j \in 1..Len(lib_STATE_TAX_BRACKETS) : lib_STATE_TAX_BRACKETS[j][1] > threshold}
    IN  IF later = {} THEN FxSub(income, FxInt(threshold))
        ELSE LET j == CHOOSE k \in later : \A l \in later : k <= l
             IN  FxInt(lib_STATE_TAX_BRACKETS[j][1] - threshold)

\* the for loop of lib_calculate_state_tax from bracket i on
RECURSIVE lib_StateTaxLoop(_, _, _, _)
lib_StateTaxLoop(i, income, state_tax, breakdown) ==
    IF i > Len(lib_STATE_TAX_BRACKETS) THEN [value |-> state_tax, breakdown |-> breakdown]
    ELSE LET threshold == lib_STATE_TAX_BRACKETS[i][1]
             rate      == lib_STATE_TAX_BRACKETS[i][2]
         IN  IF FxGt(income, FxInt(threshold))
             THEN LET taxable_in_bracket ==
                          FxMin(FxSub(income, FxInt(threshold)),
                                lib_BracketWidth(threshold, income))
                      tax_in_bracket == FxMulRate(taxable_in_bracket, rate)
                  IN  lib_StateTaxLoop(i + 1, income, FxAdd(state_tax, tax_in_bracket),
                          Append(breakdown, lib_TaxBreakdownItem(
                              "Statsskatt (over " \o Str(lib_format_currency(FxInt(threshold))) \o " NOK)",
                              tax_in_bracket, Some(rate))))
             ELSE lib_StateTaxLoop(i + 1, income, state_tax, breakdown)

lib_calculate_state_tax(income, breakdown) ==
    lib_StateTaxLoop(1, income, Zero, breakdown)

lib_calculate_investment_tax(input, breakdown) ==
    LET total_investment_income == FxInt(input.dividend_income + input.capital_gains)
    IN  IF FxLe(total_investment_income, Zero)
        THEN [value |-> Zero, breakdown |-> breakdown]
        ELSE LET risk_free_allowance ==
                     FxMulRate(FxInt(input.investment_wealth), lib_RISK_FREE_RATE_2024)
                 taxable_investment_income ==
                     FxMax0(FxSub(total_investment_income, risk_free_allowance))
                 b1 == IF FxGt(risk_free_allowance, Zero)
                       THEN Append(breakdown, lib_TaxBreakdownItem("Risikofritt fradrag",
                                FxNeg(risk_free_allowance), Some(lib_RISK_FREE_RATE_2024)))
                       ELSE breakdown
                 investment_tax == FxMulRate(taxable_investment_income, lib_INVESTMENT_TAX_RATE_2024)
                 b2 == IF FxGt(investment_tax, Zero)
                       THEN Append(b1, lib_TaxBreakdownItem("Skatt paa aksjeutbytte og gevinst",
                                investment_tax, Some(lib_INVESTMENT_TAX_RATE_2024)))
                       ELSE b1
             IN  [value |-> investment_tax, breakdown |-> b2]

lib_calculate_corporate_investment_tax(input, breakdown) ==
    LET total_investment_income == FxInt(input.dividend_income + input.capital_gains)
    IN  IF FxLe(total_investment_income, Zero)
        THEN [value |-> Zero, breakdown |-> breakdown]
        ELSE LET taxable_portion == FxMulRate(total_investment_income, 300)
                 investment_tax == FxMulRate(taxable_portion, lib_CORPORATE_TAX_RATE_2024)
             IN  [value |-> investment_tax,
                  breakdown |->
                      IF FxGt(investment_tax, Zero)
                      THEN Append(breakdown, lib_TaxBreakdownItem(
                               "Deltakermodellen - 3% skattepliktig", investment_tax, Some(66)))
                      ELSE breakdown]

lib_calculate_wealth_tax(input, breakdown) ==
    LET total_wealth == FxInt(input.investment_wealth)
    IN  IF FxLe(total_wealth, FxInt(lib_WEALTH_TAX_THRESHOLD_2024))
        THEN [value |-> Zero, breakdown |-> breakdown]
        ELSE LET taxable_wealth == FxSub(total_wealth, FxInt(lib_WEALTH_TAX_THRESHOLD_2024))
                 discounted_wealth == FxMulRate(taxable_wealth, 8000)
                 wealth_tax == FxMulRate(discounted_wealth, lib_WEALTH_TAX_RATE_2024)
             IN  [value |-> wealth_tax,
                  breakdown |->
                      IF FxGt(wealth_tax, Zero)
                      THEN Append(breakdown, lib_TaxBreakdownItem(
                               "Formueskatt (20% rabatt paa aksjer)", wealth_tax,
                               Some(lib_WEALTH_TAX_RATE_2024)))
                      ELSE breakdown]

lib_TaxCalculationResult(gross, personal_allowance, taxable_income, municipal_tax, county_tax, church_tax, state_tax, corporate_tax, national_insurance, investment_tax, wealth_tax, total_tax, net_income, effective_tax_rate, breakdown) ==
    [gross_income |-> gross,
     personal_allowance |-> personal_allowance,
     taxable_income |-> taxable_income,
     municipal_tax |-> municipal_tax,
     county_tax |-> county_tax,
     church_tax |-> church_tax,
     state_tax |-> state_tax,
     corporate_tax |-> corporate_tax,
     national_insurance |-> national_insurance,
     investment_tax |-> investment_tax,
     wealth_tax |-> wealth_tax,
     total_tax |-> total_tax,
     net_income |-> net_income,
     effective_tax_rate |-> effective_tax_rate,
     breakdown |-> breakdown]

lib_individual_taxable_income(input) ==
    FxMax0(FxInt(input.gross_income - lib_PERSONAL_ALLOWANCE_2024 - input.allowable_deductions))

lib_individual_total_tax(municipal_tax, county_tax, church_tax, state_tax, national_insurance, investment_tax, wealth_tax) ==
    FxAdd(FxAdd(FxAdd(FxAdd(FxAdd(FxAdd(municipal_tax, county_tax), church_tax),
          state_tax), national_insurance), investment_tax), wealth_tax)

lib_individual_total_gross_income(input) ==
    FxInt(input.gross_income + input.dividend_income + input.capital_gains)

lib_individual_effective_tax_rate(total_tax, total_gross_income) ==
    IF FxGt(total_gross_income, Zero)
    THEN RateOf(total_tax, total_gross_income)
    ELSE RateZero

lib_corporate_total_tax(corporate_tax, investment_tax) == FxAdd(corporate_tax, investment_tax)

lib_corporate_total_gross_income(input) ==
    FxInt(input.gross_income + input.dividend_income + input.capital_gains)

lib_corporate_effective_tax_rate(total_tax, total_gross_income) ==
    IF FxGt(total_gross_income, Zero)
    THEN RateOf(total_tax, total_gross_income)
    ELSE RateZero

lib_enk_total_tax(municipal_tax, county_tax, church_tax, state_tax, national_insurance, investment_tax, wealth_tax) ==
    FxAdd(FxAdd(FxAdd(FxAdd(FxAdd(FxAdd(municipal_tax, county_tax), church_tax),
          state_tax), national_insurance), investment_tax), wealth_tax)

lib_enk_total_gross_income(input) ==
    FxInt(input.gross_income + input.dividend_income + input.capital_gains)

lib_enk_effective_tax_rate(total_tax, total_gross_income) ==
    IF FxGt(total_gross_income, Zero)
    THEN RateOf(total_tax, total_gross_income)
    ELSE RateZero

lib_individual_church_tax(input, taxable_income, breakdown) ==
    IF input.is_church_member
    THEN LET tax == FxMulRate(taxable_income, input.church_tax_rate)
         IN  [value |-> tax,
              breakdown |-> Append(breakdown,
                  lib_TaxBreakdownItem("Kirkeskatt", tax, Some(input.church_tax_rate)))]
    ELSE [value |-> Zero, breakdown |-> breakdown]

lib_individual_state_tax(input, breakdown) ==
    lib_calculate_state_tax(FxInt(input.gross_income), breakdown)

lib_individual_national_insurance(input) ==
    FxMulRate(FxInt(input.gross_income), lib_NATIONAL_INSURANCE_RATE_2024)

lib_calculate_individual_tax(input) ==
    LET personal_allowance == FxInt(lib_PERSONAL_ALLOWANCE_2024)
        taxable_income == lib_individual_taxable_income(input)
        b1 == <<lib_TaxBreakdownItem("Personfradrag", FxNeg(personal_allowance), None)>>
        b2 == IF input.allowable_deductions > 0
              THEN Append(b1, lib_TaxBreakdownItem("Fradrag", FxInt(0 - input.allowable_deductions), None))
              ELSE b1
        municipal_tax == FxMulRate(taxable_income, input.municipal_tax_rate)
        b3 == Append(b2, lib_TaxBreakdownItem("Kommuneskatt", municipal_tax, Some(input.municipal_tax_rate)))
        county_tax == FxMulRate(taxable_income, input.county_tax_rate)
        b4 == Append(b3, lib_TaxBreakdownItem("Fylkeskatt", county_tax, Some(input.county_tax_rate)))
        ch == lib_individual_church_tax(input, taxable_income, b4)
        church_tax == ch.value
        b5 == ch.breakdown
        st == lib_individual_state_tax(input, b5)
        state_tax == st.value
        national_insurance == lib_individual_national_insurance(input)
        b6 == Append(st.breakdown, lib_TaxBreakdownItem("Trygdeavgift", national_insurance,
                                                    Some(lib_NATIONAL_INSURANCE_RATE_2024)))
        it == lib_calculate_investment_tax(input, b6)
        investment_tax == it.value
        wt == lib_calculate_wealth_tax(input, it.breakdown)
        wealth_tax == wt.value
        total_tax == lib_individual_total_tax(municipal_tax, county_tax, church_tax, state_tax,
                                  national_insurance, investment_tax, wealth_tax)
        total_gross_income == lib_individual_total_gross_income(input)
        net_income == FxSub(total_gross_income, total_tax)
        effective_tax_rate == lib_individual_effective_tax_rate(total_tax, total_gross_income)
    IN  lib_TaxCalculationResult(total_gross_income, personal_allowance, taxable_income,
               municipal_tax, county_tax, church_tax, state_tax, Zero, national_insurance,
               investment_tax, wealth_tax, total_tax, net_income, effective_tax_rate,
               wt.breakdown)

lib_corporate_taxable_income(input) ==
    FxMax0(FxInt(input.gross_income - input.allowable_deductions))

lib_calculate_corporate_tax(input) ==
    LET taxable_income == lib_corporate_taxable_income(input)
        b1 == IF input.allowable_deductions > 0
              THEN <<lib_TaxBreakdownItem("Fradrag", FxInt(0 - input.allowable_deductions), None)>>
              ELSE <<>>
        corporate_tax == FxMulRate(taxable_income, lib_CORPORATE_TAX_RATE_2024)
        b2 == Append(b1, lib_TaxBreakdownItem("Selskapsskatt", corporate_tax,
                                          Some(lib_CORPORATE_TAX_RATE_2024)))
        it == lib_calculate_corporate_investment_tax(input, b2)
        investment_tax == it.value
        total_tax == lib_corporate_total_tax(corporate_tax, investment_tax)
        total_gross_income == lib_corporate_total_gross_income(input)
        net_income == FxSub(total_gross_income, total_tax)
        effective_tax_rate == lib_corporate_effective_tax_rate(total_tax, total_gross_income)
    IN  lib_TaxCalculationResult(total_gross_income, Zero, taxable_income, Zero, Zero, Zero,
               Zero, corporate_tax, Zero, investment_tax, Zero, total_tax, net_income,
               effective_tax_rate, it.breakdown)

lib_calculate_partnership_tax(input) ==
    LET result == lib_calculate_individual_tax(input)
    IN  [result EXCEPT !.breakdown =
            <<lib_TaxBreakdownItem("Deltakerlignet selskap - beskattes som personinntekt", Zero, None)>>
            \o result.breakdown]

lib_enk_taxable_income(input) ==
    LET business_profit == FxMax0(FxInt(input.gross_income - input.business_expenses))
    IN  FxMax0(FxSub(business_profit, FxInt(input.allowable_deductions)))

lib_enk_deduction_items(input) ==
    LET b0 == <<lib_TaxBreakdownItem("ENK - Enkeltpersonforetak", Zero, None)>>
        b1 == IF input.business_expenses > 0
              THEN Append(b0, lib_TaxBreakdownItem("Driftskostnader",
                                               FxInt(0 - input.business_expenses), None))
              ELSE b0
    IN  IF input.allowable_deductions > 0
        THEN Append(b1, lib_TaxBreakdownItem("Fradrag", FxInt(0 - input.allowable_deductions), None))
        ELSE b1

lib_enk_church_tax(input, taxable_income, breakdown) ==
    IF input.is_church_member
    THEN LET tax == FxMulRate(taxable_income, input.church_tax_rate)
         IN  [value |-> tax,
              breakdown |-> Append(breakdown,
                  lib_TaxBreakdownItem("Kirkeskatt", tax, Some(input.church_tax_rate)))]
    ELSE [value |-> Zero, breakdown |-> breakdown]

lib_enk_state_tax(input, breakdown) ==
    lib_calculate_state_tax(FxInt(input.gross_income), breakdown)

\* variant: the employee rate in the sole-proprietorship strategy
lib_enk_national_insurance_employee_rate(input) ==
    FxMulRate(FxInt(input.gross_income), lib_NATIONAL_INSURANCE_RATE_2024)

lib_enk_national_insurance(input) ==
    FxMulRate(FxInt(input.gross_income), lib_NATIONAL_INSURANCE_RATE_ENK_2024)

lib_calculate_enk_tax(input) ==
    LET taxable_income == lib_enk_taxable_income(input)
        b2 == lib_enk_deduction_items(input)
        municipal_tax == FxMulRate(taxable_income, input.municipal_tax_rate)
        b3 == Append(b2, lib_TaxBreakdownItem("Kommuneskatt", municipal_tax, Some(input.municipal_tax_rate)))
        county_tax == FxMulRate(taxable_income, input.county_tax_rate)
        b4 == Append(b3, lib_TaxBreakdownItem("Fylkeskatt", county_tax, Some(input.county_tax_rate)))
        ch == lib_enk_church_tax(input, taxable_income, b4)
        church_tax == ch.value
        b5 == ch.breakdown
        st == lib_enk_state_tax(input, b5)
        state_tax == st.value
        national_insurance == lib_enk_national_insurance(input)
        b6 == Append(st.breakdown, lib_TaxBreakdownItem("Trygdeavgift (ENK)", national_insurance,
                                                    Some(lib_NATIONAL_INSURANCE_RATE_ENK_2024)))
        it == lib_calculate_investment_tax(input, b6)
        investment_tax == it.value
        wt == lib_calculate_wealth_tax(input, it.breakdown)
        wealth_tax == wt.value
        total_tax == lib_enk_total_tax(municipal_tax, county_tax, church_tax, state_tax,
                                  national_insurance, investment_tax, wealth_tax)
        total_gross_income == lib_enk_total_gross_income(input)
        net_income == FxSub(total_gross_income, total_tax)
        effective_tax_rate == lib_enk_effective_tax_rate(total_tax, total_gross_income)
    IN  lib_TaxCalculationResult(total_gross_income, Zero, taxable_income, municipal_tax,
               county_tax, church_tax, state_tax, Zero, national_insurance, investment_tax,
               wealth_tax, total_tax, net_income, effective_tax_rate, wt.breakdown)

lib_calculate_tax(input) ==
    CASE input.entity_type = "Individual" -> lib_calculate_individual_tax(input)
      [] input.entity_type = "Corporation" -> lib_calculate_corporate_tax(input)
      [] input.entity_type = "Partnership" -> lib_calculate_partnership_tax(input)
      [] input.entity_type = "SoleProprietorship" -> lib_calculate_enk_tax(input)

-----------------------------------------------------------------------------
(* Text of an input event and str::parse::<f64>.  A text is a sequence of  *)
(* characters; the texts of the model are decimal numerals with an         *)
(* optional sign and at most two decimals, and texts that do not parse.    *)

IsDigit(c) == \E d \in 1..10 : DigitChars[d] = c

DigitValue(c) == (CHOOSE d \in 1..10 : DigitChars[d] = c) - 1

RECURSIVE NumeralValue(_)
NumeralValue(ds) ==
    IF ds = <<>> THEN 0
    ELSE 10 * NumeralValue(SubSeq(ds, 1, Len(ds) - 1)) + DigitValue(ds[Len(ds)])

\* parse::<f64>() on a decimal numeral; the value is in hundredths
ParseF64(text) ==
    LET signed == text # <<>> /\ text[1] \in {"-", "+"}
        body   == IF signed THEN Tail(text) ELSE text
        dots   == {i \in 1..Len(body) : body[i] = "."}
        ip     == IF dots = {} THEN body
                  ELSE SubSeq(body, 1, (CHOOSE i \in dots : TRUE) - 1)
        fp     == IF dots = {} THEN <<>>
                  ELSE SubSeq(body, (CHOOSE i \in dots : TRUE) + 1, Len(body))
        ok     == /\ Cardinality(dots) <= 1
                  /\ Len(ip) + Len(fp) > 0
                  /\ Len(fp) <= 2
                  /\ \A i \in 1..Len(ip) : IsDigit(ip[i])
                  /\ \A i \in 1..Len(fp) : IsDigit(fp[i])
        frac   == IF Len(fp) = 0 THEN 0
                  ELSE IF Len(fp) = 1 THEN 10 * NumeralValue(fp)
                  ELSE NumeralValue(fp)
        mag    == 100 * NumeralValue(ip) + frac
    IN  IF ok THEN [ok |-> TRUE, value |-> IF signed /\ text[1] = "-" THEN 0 - mag ELSE mag]
        ELSE [ok |-> FALSE, value |-> 0]

\* the decimal numeral of a whole number
Numeral(n) == IF n < 0 THEN <<"-">> \o Digits(0 - n) ELSE Digits(n)

BadTexts == {<<>>, <<"a", "b", "c">>}

GrossIncomeTexts == {Numeral(n) : n \in {0, 208051, 600000, 1350001}} \cup BadTexts

DeductionTexts == {Numeral(n) : n \in {0, 100000, 700000, -50000}} \cup BadTexts

BusinessExpenseTexts == {Numeral(n) : n \in {0, 50000, 700000}} \cup BadTexts

DividendTexts == {Numeral(n) : n \in {0, 50000}} \cup BadTexts

CapitalGainTexts == {Numeral(n) : n \in {0, -60000}} \cup BadTexts

WealthTexts == {Numeral(n) : n \in {0, 2500000}} \cup BadTexts

MunicipalRateTexts == {<<"1", "0">>, <<"1", "2", ".", "5">>} \cup BadTexts

CountyRateTexts == {<<"1", "1", ".", "4">>, <<"0">>} \cup BadTexts

ChurchRateTexts == {<<"1", ".", "3">>, <<"2">>} \cup BadTexts

-----------------------------------------------------------------------------
(* src/components/tax_calculator_component.rs: the TaxCalculator component.*)
(* Money signals are in whole kroner, rate signals in hundredths of a      *)
(* percent.                                                                *)

Init ==
    /\ gross_income = 600000
    /\ entity_type = "Individual"
    /\ municipal_tax_rate = 1000
    /\ county_tax_rate = 1140
    /\ church_tax_rate = 130
    /\ is_church_member = TRUE
    /\ allowable_deductions = 0
    /\ active_tab = "Individual"
    /\ dividend_income = 0
    /\ capital_gains = 0
    /\ investment_wealth = 0
    /\ business_expenses = 0
    /\ call_fn = "none"
    /\ call_arg = <<>>
    /\ call_ret = <<>>

\* the input record the memo builds for entity type e
InputFor(e, member, wealth, expenses) ==
    [gross_income |-> gross_income,
     entity_type |-> e,
     municipal_tax_rate |-> municipal_tax_rate,
     county_tax_rate |-> county_tax_rate,
     church_tax_rate |-> church_tax_rate,
     is_church_member |-> member,
     allowable_deductions |-> allowable_deductions,
     dividend_income |-> dividend_income,
     capital_gains |-> capital_gains,
     investment_wealth |-> wealth,
     business_expenses |-> expenses]

calculation_input == InputFor(entity_type, is_church_member, investment_wealth, business_expenses)

calculation_result == calculate_tax(calculation_input)

individual_input == InputFor("Individual", is_church_member, investment_wealth, 0)

individual_result == calculate_tax(individual_input)

\* variant: the Corporation comparison built from the raw field values
corporate_input_unzeroed ==
    InputFor("Corporation", is_church_member, investment_wealth, business_expenses)

corporate_input == InputFor("Corporation", FALSE, 0, 0)

corporate_result == calculate_tax(corporate_input)

partnership_input == InputFor("Partnership", is_church_member, investment_wealth, 0)

partnership_result == calculate_tax(partnership_input)

enk_input ==
    InputFor("SoleProprietorship", is_church_member, investment_wealth, business_expenses)

enk_result == calculate_tax(enk_input)

\* variant: a click that selects the tab without changing the entity type
ClickTab_active_tab_only(e) ==
    /\ active_tab' = e
    /\ UNCHANGED <<entity_type, gross_income, municipal_tax_rate, county_tax_rate,
                   church_tax_rate, is_church_member, allowable_deductions, dividend_income,
                   capital_gains, investment_wealth, business_expenses, call_fn, call_arg,
                   call_ret>>

ClickTab(e) ==
    /\ active_tab' = e
    /\ entity_type' = e
    /\ UNCHANGED <<gross_income, municipal_tax_rate, county_tax_rate, church_tax_rate,
                   is_church_member, allowable_deductions, dividend_income, capital_gains,
                   investment_wealth, business_expenses, call_fn, call_arg, call_ret>>

\* if let Ok(value) = event_target_value(&ev).parse::<f64>() { set(value) }
\* variant: a text that does not parse read as 0
Parsed_or_zero(text, old, unit) ==
    LET p == ParseF64(text) IN IF p.ok THEN p.value \div unit ELSE 0

Parsed(text, old, unit) ==
    LET p == ParseF64(text) IN IF p.ok THEN p.value \div unit ELSE old

InputGrossIncome(text) ==
    /\ gross_income' = Parsed(text, gross_income, 100)
    /\ UNCHANGED <<entity_type, municipal_tax_rate, county_tax_rate, church_tax_rate,
                   is_church_member, allowable_deductions, active_tab, dividend_income,
                   capital_gains, investment_wealth, business_expenses, call_fn, call_arg, call_ret>>

InputDeductions(text) ==
    /\ allowable_deductions' = Parsed(text, allowable_deductions, 100)
    /\ UNCHANGED <<gross_income, entity_type, municipal_tax_rate, county_tax_rate,
                   church_tax_rate, is_church_member, active_tab, dividend_income,
                   capital_gains, investment_wealth, business_expenses, call_fn, call_arg, call_ret>>

InputBusinessExpenses(text) ==
    /\ active_tab = "SoleProprietorship"
    /\ business_expenses' = Parsed(text, business_expenses, 100)
    /\ UNCHANGED <<gross_income, entity_type, municipal_tax_rate, county_tax_rate,
                   church_tax_rate, is_church_member, allowable_deductions, active_tab,
                   dividend_income, capital_gains, investment_wealth, call_fn, call_arg, call_ret>>

InputDividendIncome(text) ==
    /\ dividend_income' = Parsed(text, dividend_income, 100)
    /\ UNCHANGED <<gross_income, entity_type, municipal_tax_rate, county_tax_rate,
                   church_tax_rate, is_church_member, allowable_deductions, active_tab,
                   capital_gains, investment_wealth, business_expenses, call_fn, call_arg, call_ret>>

InputCapitalGains(text) ==
    /\ capital_gains' = Parsed(text, capital_gains, 100)
    /\ UNCHANGED <<gross_income, entity_type, municipal_tax_rate, county_tax_rate,
                   church_tax_rate, is_church_member, allowable_deductions, active_tab,
                   dividend_income, investment_wealth, business_expenses, call_fn, call_arg, call_ret>>

InputInvestmentWealth(text) ==
    /\ active_tab # "Corporation"
    /\ investment_wealth' = Parsed(text, investment_wealth, 100)
    /\ UNCHANGED <<gross_income, entity_type, municipal_tax_rate, county_tax_rate,
                   church_tax_rate, is_church_member, allowable_deductions, active_tab,
                   dividend_income, capital_gains, business_expenses, call_fn, call_arg, call_ret>>

InputMunicipalTaxRate(text) ==
    /\ municipal_tax_rate' = Parsed(text, municipal_tax_rate, 1)
    /\ UNCHANGED <<gross_income, entity_type, county_tax_rate, church_tax_rate,
                   is_church_member, allowable_deductions, active_tab, dividend_income,
                   capital_gains, investment_wealth, business_expenses, call_fn, call_arg, call_ret>>

InputCountyTaxRate(text) ==
    /\ county_tax_rate' = Parsed(text, county_tax_rate, 1)
    /\ UNCHANGED <<gross_income, entity_type, municipal_tax_rate, church_tax_rate,
                   is_church_member, allowable_deductions, active_tab, dividend_income,
                   capital_gains, investment_wealth, business_expenses, call_fn, call_arg, call_ret>>

ChangeChurchMember(checked) ==
    /\ active_tab # "Corporation"
    /\ is_church_member' = checked
    /\ UNCHANGED <<gross_income, entity_type, municipal_tax_rate, county_tax_rate,
                   church_tax_rate, allowable_deductions, active_tab, dividend_income,
                   capital_gains, investment_wealth, business_expenses, call_fn, call_arg, call_ret>>

InputChurchTaxRate(text) ==
    /\ active_tab # "Corporation" /\ is_church_member
    /\ church_tax_rate' = Parsed(text, church_tax_rate, 1)
    /\ UNCHANGED <<gross_income, entity_type, municipal_tax_rate, county_tax_rate,
                   is_church_member, allowable_deductions, active_tab, dividend_income,
                   capital_gains, investment_wealth, business_expenses, call_fn, call_arg, call_ret>>

Next ==
    \/ \E e \in EntityType : ClickTab(e)
    \/ \E text \in GrossIncomeTexts : InputGrossIncome(text)
    \/ \E text \in DeductionTexts : InputDeductions(text)
    \/ \E text \in BusinessExpenseTexts : InputBusinessExpenses(text)
    \/ \E text \in DividendTexts : InputDividendIncome(text)
    \/ \E text \in CapitalGainTexts : InputCapitalGains(text)
    \/ \E text \in WealthTexts : InputInvestmentWealth(text)
    \/ \E text \in MunicipalRateTexts : InputMunicipalTaxRate(text)
    \/ \E text \in CountyRateTexts : InputCountyTaxRate(text)
    \/ \E checked \in BOOLEAN : ChangeChurchMember(checked)
    \/ \E text \in ChurchRateTexts : InputChurchTaxRate(text)

Spec == Init /\ [][Next]_vars

-----------------------------------------------------------------------------
(* src/lib.rs: the App component.  It has the signals of TaxCalculator     *)
(* without active_tab, one memo, and a reset button; call_fn records the   *)
(* handler that ran last.                                                  *)

App_calculation_result == lib_calculate_tax(calculation_input)

\* on_select of an EntityTab
App_on_select(e) ==
    /\ entity_type' = e
    /\ call_fn' = "on_select"
    /\ UNCHANGED <<gross_income, municipal_tax_rate, county_tax_rate, church_tax_rate,
                   is_church_member, allowable_deductions, active_tab, dividend_income,
                   capital_gains, investment_wealth, business_expenses, call_arg, call_ret>>

App_InputGrossIncome(text) ==
    /\ gross_income' = Parsed(text, gross_income, 100)
    /\ call_fn' = "on_input"
    /\ UNCHANGED <<entity_type, municipal_tax_rate, county_tax_rate, church_tax_rate,
                   is_church_member, allowable_deductions, active_tab, dividend_income,
                   capital_gains, investment_wealth, business_expenses, call_arg, call_ret>>

App_InputDeductions(text) ==
    /\ allowable_deductions' = Parsed(text, allowable_deductions, 100)
    /\ call_fn' = "on_input"
    /\ UNCHANGED <<gross_income, entity_type, municipal_tax_rate, county_tax_rate,
                   church_tax_rate, is_church_member, active_tab, dividend_income,
                   capital_gains, investment_wealth, business_expenses, call_arg, call_ret>>

App_InputBusinessExpenses(text) ==
    /\ entity_type = "SoleProprietorship"
    /\ business_expenses' = Parsed(text, business_expenses, 100)
    /\ call_fn' = "on_input"
    /\ UNCHANGED <<gross_income, entity_type, municipal_tax_rate, county_tax_rate,
                   church_tax_rate, is_church_member, allowable_deductions, active_tab,
                   dividend_income, capital_gains, investment_wealth, call_arg, call_ret>>

App_InputDividendIncome(text) ==
    /\ dividend_income' = Parsed(text, dividend_income, 100)
    /\ call_fn' = "on_input"
    /\ UNCHANGED <<gross_income, entity_type, municipal_tax_rate, county_tax_rate,
                   church_tax_rate, is_church_member, allowable_deductions, active_tab,
                   capital_gains, investment_wealth, business_expenses, call_arg, call_ret>>

App_InputCapitalGains(text) ==
    /\ capital_gains' = Parsed(text, capital_gains, 100)
    /\ call_fn' = "on_input"
    /\ UNCHANGED <<gross_income, entity_type, municipal_tax_rate, county_tax_rate,
                   church_tax_rate, is_church_member, allowable_deductions, active_tab,
                   dividend_income, investment_wealth, business_expenses, call_arg,
                   call_ret>>

App_InputInvestmentWealth(text) ==
    /\ entity_type # "Corporation"
    /\ investment_wealth' = Parsed(text, investment_wealth, 100)
    /\ call_fn' = "on_input"
    /\ UNCHANGED <<gross_income, entity_type, municipal_tax_rate, county_tax_rate,
                   church_tax_rate, is_church_member, allowable_deductions, active_tab,
                   dividend_income, capital_gains, business_expenses, call_arg, call_ret>>

App_InputMunicipalTaxRate(text) ==
    /\ municipal_tax_rate' = Parsed(text, municipal_tax_rate, 1)
    /\ call_fn' = "on_input"
    /\ UNCHANGED <<gross_income, entity_type, county_tax_rate, church_tax_rate,
                   is_church_member, allowable_deductions, active_tab, dividend_income,
                   capital_gains, investment_wealth, business_expenses, call_arg, call_ret>>

App_InputCountyTaxRate(text) ==
    /\ county_tax_rate' = Parsed(text, county_tax_rate, 1)
    /\ call_fn' = "on_input"
    /\ UNCHANGED <<gross_income, entity_type, municipal_tax_rate, church_tax_rate,
                   is_church_member, allowable_deductions, active_tab, dividend_income,
                   capital_gains, investment_wealth, business_expenses, call_arg, call_ret>>

App_InputChurchTaxRate(text) ==
    /\ entity_type # "Corporation" /\ is_church_member
    /\ church_tax_rate' = Parsed(text, church_tax_rate, 1)
    /\ call_fn' = "on_input"
    /\ UNCHANGED <<gross_income, entity_type, municipal_tax_rate, county_tax_rate,
                   is_church_member, allowable_deductions, active_tab, dividend_income,
                   capital_gains, investment_wealth, business_expenses, call_arg, call_ret>>

App_ChangeChurchMember(checked) ==
    /\ entity_type # "Corporation"
    /\ is_church_member' = checked
    /\ call_fn' = "on_change"
    /\ UNCHANGED <<gross_income, entity_type, municipal_tax_rate, county_tax_rate,
                   church_tax_rate, allowable_deductions, active_tab, dividend_income,
                   capital_gains, investment_wealth, business_expenses, call_arg, call_ret>>

\* variant: a reset that leaves the selected entity type
App_reset_calculator_keeps_entity_type ==
    /\ gross_income' = 600000
    /\ municipal_tax_rate' = 1000
    /\ county_tax_rate' = 1140
    /\ church_tax_rate' = 130
    /\ is_church_member' = TRUE
    /\ allowable_deductions' = 0
    /\ dividend_income' = 0
    /\ capital_gains' = 0
    /\ investment_wealth' = 0
    /\ business_expenses' = 0
    /\ call_fn' = "reset_calculator"
    /\ UNCHANGED <<entity_type, active_tab, call_arg, call_ret>>

App_reset_calculator ==
    /\ gross_income' = 600000
    /\ entity_type' = "Individual"
    /\ municipal_tax_rate' = 1000
    /\ county_tax_rate' = 1140
    /\ church_tax_rate' = 130
    /\ is_church_member' = TRUE
    /\ allowable_deductions' = 0
    /\ dividend_income' = 0
    /\ capital_gains' = 0
    /\ investment_wealth' = 0
    /\ business_expenses' = 0
    /\ call_fn' = "reset_calculator"
    /\ UNCHANGED <<active_tab, call_arg, call_ret>>

App_GrossIncomeTexts == {Numeral(0), Numeral(1350001), <<>>}

App_AmountTexts == {Numeral(0), Numeral(100000), <<"a", "b", "c">>}

App_WealthTexts == {Numeral(0), Numeral(2500000), <<>>}

App_RateTexts == {<<"0">>, <<"1", "2", ".", "5">>, <<>>}

NextApp ==
    \/ \E e \in EntityType : App_on_select(e)
    \/ \E text \in App_GrossIncomeTexts : App_InputGrossIncome(text)
    \/ \E text \in App_AmountTexts : App_InputDeductions(text)
    \/ \E text \in App_AmountTexts : App_InputBusinessExpenses(text)
    \/ \E text \in App_AmountTexts : App_InputDividendIncome(text)
    \/ \E text \in App_AmountTexts : App_InputCapitalGains(text)
    \/ \E text \in App_WealthTexts : App_InputInvestmentWealth(text)
    \/ \E text \in App_RateTexts : App_InputMunicipalTaxRate(text)
    \/ \E text \in App_RateTexts : App_InputCountyTaxRate(text)
    \/ \E checked \in BOOLEAN : App_ChangeChurchMember(checked)
    \/ \E text \in App_RateTexts : App_InputChurchTaxRate(text)
    \/ App_reset_calculator

SpecApp == Init /\ [][NextApp]_vars

-----------------------------------------------------------------------------------------------------------------------------------------------------
(* The engine's helpers called directly, on inputs around their            *)
(* boundaries.                                                             *)

MaxSmallAmount == 130

MaxDelta == 2

Half == [w |-> 0, f |-> FRAC \div 2]

WholeAmounts ==
    (0..MaxSmallAmount) \cup
    {999, 1000, 1001, 9999, 10000, 69100, 99999, 100000, 208050, 600000,
     999999, 1000000, 1234567, 1350000}

FormatAmounts ==
    {FxInt(n) : n \in WholeAmounts} \cup
    {FxInt(0 - n) : n \in WholeAmounts \ {0}} \cup
    {FxAdd(FxInt(n), Half) : n \in {0, 1, 2, 999, 1234}} \cup
    {FxNeg(FxAdd(FxInt(n), Half)) : n \in {1, 2, 999, 1234}}

Thresholds == {STATE_TAX_BRACKETS[i][1] : i \in 1..Len(STATE_TAX_BRACKETS)}

StateTaxIncomes ==
    {0, 1, 600000, 2000000} \cup
    {t + d : t \in Thresholds, d \in (0 - MaxDelta)..MaxDelta}

WealthAmounts ==
    {0, 1000000, 3000000} \cup
    {WEALTH_TAX_THRESHOLD_2024 + d : d \in (0 - MaxDelta)..MaxDelta}

\* an input with nothing but the investment fields set
InvestmentInput(dividends, gains, wealth) ==
    [gross_income |-> 0,
     entity_type |-> "Individual",
     municipal_tax_rate |-> 1000,
     county_tax_rate |-> 1140,
     church_tax_rate |-> 130,
     is_church_member |-> TRUE,
     allowable_deductions |-> 0,
     dividend_income |-> dividends,
     capital_gains |-> gains,
     investment_wealth |-> wealth,
     business_expenses |-> 0]

CallFormatCurrency(amount) ==
    /\ call_fn' = "format_currency"
    /\ call_arg' = amount
    /\ call_ret' = format_currency(amount)
    /\ UNCHANGED signals

CallStateTax(income) ==
    /\ call_fn' = "calculate_state_tax"
    /\ call_arg' = income
    /\ call_ret' = calculate_state_tax(FxInt(income), <<>>)
    /\ UNCHANGED signals

CallWealthTax(wealth) ==
    /\ call_fn' = "calculate_wealth_tax"
    /\ call_arg' = wealth
    /\ call_ret' = calculate_wealth_tax(InvestmentInput(0, 0, wealth), <<>>)
    /\ UNCHANGED signals

CallInvestmentTax(dividends, gains, wealth) ==
    /\ call_fn' = "calculate_investment_tax"
    /\ call_arg' = InvestmentInput(dividends, gains, wealth)
    /\ call_ret' = calculate_investment_tax(InvestmentInput(dividends, gains, wealth), <<>>)
    /\ UNCHANGED signals

CallCorporateInvestmentTax(dividends, gains, wealth) ==
    /\ call_fn' = "calculate_corporate_investment_tax"
    /\ call_arg' = InvestmentInput(dividends, gains, wealth)
    /\ call_ret' = calculate_corporate_investment_tax(InvestmentInput(dividends, gains, wealth),
                                                     <<>>)
    /\ UNCHANGED signals

NextCalls ==
    \/ \E amount \in FormatAmounts : CallFormatCurrency(amount)
    \/ \E income \in StateTaxIncomes : CallStateTax(income)
    \/ \E wealth \in WealthAmounts : CallWealthTax(wealth)
    \/ \E dividends \in {0, 50000, 51600, 51601} :
       \E gains \in {0, 20000, -50000, -60000} :
       \E wealth \in {0, 1, 1000000, 3000000} :
           CallInvestmentTax(dividends, gains, wealth)
    \/ \E dividends \in {0, 50000, 51600, 51601} :
       \E gains \in {0, 20000, -50000, -60000} :
       \E wealth \in {0, 1, 1000000, 3000000} :
           CallCorporateInvestmentTax(dividends, gains, wealth)

SpecCalls == Init /\ [][NextCalls]_vars

-----------------------------------------------------------------------------
(* TaxResults: the class of a rendered breakdown row.                      *)

\* the characters of the description literals and of the formatted
\* state-tax descriptions
DescriptionChars ==
    {
     <<"P", "e", "r", "s", "o", "n", "f", "r", "a", "d", "r", "a", "g">>,
     <<"F", "r", "a", "d", "r", "a", "g">>,
     <<"K", "o", "m", "m", "u", "n", "e", "s", "k", "a", "t", "t">>,
     <<"F", "y", "l", "k", "e", "s", "k", "a", "t", "t">>,
     <<"K", "i", "r", "k", "e", "s", "k", "a", "t", "t">>,
     <<"T", "r", "y", "g", "d", "e", "a", "v", "g", "i", "f", "t">>,
     <<"S", "e", "l", "s", "k", "a", "p", "s", "s", "k", "a", "t", "t">>,
     <<"D", "e", "l", "t", "a", "k", "e", "r", "l", "i", "g", "n", "e", "t", " ", "s", "e",
       "l", "s", "k", "a", "p", " ", "-", " ", "b", "e", "s", "k", "a", "t", "t", "e", "s",
       " ", "s", "o", "m", " ", "p", "e", "r", "s", "o", "n", "i", "n", "n", "t", "e", "k",
       "t">>,
     <<"E", "N", "K", " ", "-", " ", "E", "n", "k", "e", "l", "t", "p", "e", "r", "s", "o",
       "n", "f", "o", "r", "e", "t", "a", "k">>,
     <<"D", "r", "i", "f", "t", "s", "k", "o", "s", "t", "n", "a", "d", "e", "r">>,
     <<"T", "r", "y", "g", "d", "e", "a", "v", "g", "i", "f", "t", " ", "(", "E", "N", "K",
       ")">>,
     <<"R", "i", "s", "i", "k", "o", "f", "r", "i", "t", "t", " ", "f", "r", "a", "d", "r",
       "a", "g">>,
     <<"S", "k", "a", "t", "t", " ", "p", "a", "a", " ", "a", "k", "s", "j", "e", "u", "t",
       "b", "y", "t", "t", "e", " ", "o", "g", " ", "g", "e", "v", "i", "n", "s", "t">>,
     <<"D", "e", "l", "t", "a", "k", "e", "r", "m", "o", "d", "e", "l", "l", "e", "n", " ",
       "-", " ", "3", "%", " ", "s", "k", "a", "t", "t", "e", "p", "l", "i", "k", "t", "i",
       "g">>,
     <<"F", "o", "r", "m", "u", "e", "s", "k", "a", "t", "t", " ", "(", "2", "0", "%", " ",
       "r", "a", "b", "a", "t", "t", " ", "p", "a", "a", " ", "a", "k", "s", "j", "e", "r",
       ")">>
    } \cup
    {<<"S", "t", "a", "t", "s", "s", "k", "a", "t", "t", " ", "(", "o", "v", "e", "r", " ">> \o format_currency(FxInt(STATE_TAX_BRACKETS[i][1])) \o <<" ", "N", "O", "K", ")">> :
        i \in 1..Len(STATE_TAX_BRACKETS)}

Chars == [d \in {Str(cs) : cs \in DescriptionChars} |->
             CHOOSE cs \in DescriptionChars : Str(cs) = d]

\* str::contains
Contains(text, pattern) ==
    \E i \in 1..(Len(text) - Len(pattern) + 1) :
        SubSeq(text, i, i + Len(pattern) - 1) = pattern

is_deduction(item) == FxLt(item.amount, Zero)

is_tax(item) ==
    /\ FxGt(item.amount, Zero)
    /\ ~Contains(Chars[item.description], <<"E", "N", "K">>)
    /\ ~Contains(Chars[item.description], <<"D", "e", "l", "t", "a", "k", "e", "r", "l", "i", "g", "n", "e", "t">>)

\* the class given to the row besides "result-item"
item_class(item) ==
    IF is_deduction(item) THEN "deduction"
    ELSE IF is_tax(item) THEN "tax"
    ELSE ""

-----------------------------------------------------------------------------
(* Properties.                                                             *)

\* the sum of a sequence of amounts, whole parts and fractions added apart
RECURSIVE SumW(_)
SumW(as) == IF as = <<>> THEN 0 ELSE Head(as).w + SumW(Tail(as))

RECURSIVE SumF(_)
SumF(as) == IF as = <<>> THEN 0 ELSE Head(as).f + SumF(Tail(as))

SumAmounts(as) == [w |-> SumW(as) + (SumF(as) \div FRAC), f |-> SumF(as) % FRAC]

\* n * rate / 10000 for a whole n with n * rate in range
ExactRate(n, rate) ==
    [w |-> (n * rate) \div 10000, f |-> ((n * rate) % 10000) * 10000]

Max(a, b) == IF a > b THEN a ELSE b

Min(a, b) == IF a < b THEN a ELSE b

PersonalTypes == {"Individual", "Partnership", "SoleProprietorship"}

\* C1: total_tax is the sum of the category totals of the result: for
\* Individual, Partnership and SoleProprietorship the seven personal
\* categories with corporate_tax 0; for Corporation corporate_tax +
\* investment_tax with every other category and personal_allowance 0.
C1_TotalTaxIsSumOfCategories ==
    LET r == calculation_result
    IN  /\ entity_type \in PersonalTypes =>
             /\ r.total_tax = SumAmounts(<<r.municipal_tax, r.county_tax, r.church_tax,
                                           r.state_tax, r.national_insurance,
                                           r.investment_tax, r.wealth_tax>>)
             /\ r.corporate_tax = Zero
        /\ entity_type = "Corporation" =>
             /\ r.total_tax = SumAmounts(<<r.corporate_tax, r.investment_tax>>)
             /\ r.municipal_tax = Zero /\ r.county_tax = Zero /\ r.church_tax = Zero
             /\ r.state_tax = Zero /\ r.national_insurance = Zero
             /\ r.wealth_tax = Zero /\ r.personal_allowance = Zero

C1_Witness ==
    /\ entity_type = "Corporation"
    /\ FxGt(calculation_result.corporate_tax, Zero)
    /\ FxGt(calculation_result.investment_tax, Zero)
    /\ investment_wealth > WEALTH_TAX_THRESHOLD_2024
    /\ is_church_member

\* C2: effective_tax_rate is 0 whenever gross_income + dividend_income +
\* capital_gains is 0 or negative, and total_tax / that sum (* 100)
\* otherwise; no quotient has a zero divisor.
C2_EffectiveRateGuarded ==
    LET r == calculation_result
        t == gross_income + dividend_income + capital_gains
    IN  /\ t <= 0 => r.effective_tax_rate = RateZero
        /\ t > 0 => r.effective_tax_rate = [num |-> r.total_tax, den |-> FxInt(t)]
        /\ r.effective_tax_rate.den # Zero

C2_Witness ==
    /\ gross_income + dividend_income + capital_gains = 0
    /\ FxGt(calculation_result.total_tax, Zero)
    /\ calculation_result.effective_tax_rate = RateZero

\* C3: the result's gross_income is input.gross_income + dividend_income +
\* capital_gains, and net_income is that sum minus total_tax, so that
\* net_income + total_tax = result.gross_income.
C3_GrossIsTotalEconomicIncome ==
    LET r == calculation_result
    IN  /\ r.gross_income = FxInt(gross_income + dividend_income + capital_gains)
        /\ SumAmounts(<<r.net_income, r.total_tax>>) = r.gross_income

C3_Witness ==
    /\ dividend_income + capital_gains > 0
    /\ entity_type = "SoleProprietorship"
    /\ calculation_result.gross_income # FxInt(gross_income)
    /\ FxGt(calculation_result.total_tax, Zero)

\* C4: the Partnership result has the zero-amount, rate-less pass-through
\* marker as breakdown element 0, and the rest of its breakdown and every
\* total are those of the Individual strategy on the same input.
C4_PartnershipIsIndividualPlusMarker ==
    entity_type = "Partnership" =>
        LET p == calculation_result
            i == calculate_tax([calculation_input EXCEPT !.entity_type = "Individual"])
        IN  /\ Len(p.breakdown) = Len(i.breakdown) + 1
            /\ p.breakdown[1].amount = Zero
            /\ p.breakdown[1].rate = None
            /\ p.breakdown[1].description =
                   "Deltakerlignet selskap - beskattes som personinntekt"
            /\ Tail(p.breakdown) = i.breakdown
            /\ [p EXCEPT !.breakdown = i.breakdown] = i

C4_Witness ==
    /\ entity_type = "Partnership"
    /\ Len(calculation_result.breakdown) >= 10
    /\ calculation_result.breakdown[1].amount = Zero
    /\ calculation_result.breakdown[2].description = "Personfradrag"

\* the slice of bracket i an income reaches: max(0, min(income, next) - threshold)
BracketSlice(i, income) ==
    LET threshold == STATE_TAX_BRACKETS[i][1]
        upper == IF i < Len(STATE_TAX_BRACKETS)
                 THEN Min(income, STATE_TAX_BRACKETS[i + 1][1])
                 ELSE income
    IN  Max(0, upper - threshold)

BracketLabels ==
    <<"Statsskatt (over 208 050 NOK)", "Statsskatt (over 292 850 NOK)",
      "Statsskatt (over 670 000 NOK)", "Statsskatt (over 937 900 NOK)",
      "Statsskatt (over 1 350 000 NOK)">>

\* C5: calculate_state_tax is a marginal sweep: the tax is the sum over the
\* brackets of rate * max(0, min(income, next threshold) - threshold), and
\* the breakdown has one item, in ascending threshold order, for each bracket
\* the income exceeds; an income of at most 208050 gives 0 and no item.
C5_StateTaxIsMarginalSweep ==
    call_fn = "calculate_state_tax" =>
        LET income == call_arg
            n == Cardinality({i \in 1..Len(STATE_TAX_BRACKETS) :
                                 income > STATE_TAX_BRACKETS[i][1]})
        IN  /\ call_ret.value =
                   SumAmounts([i \in 1..Len(STATE_TAX_BRACKETS) |->
                       ExactRate(BracketSlice(i, income), STATE_TAX_BRACKETS[i][2])])
            /\ Len(call_ret.breakdown) = n
            /\ \A k \in 1..n :
                   /\ income > STATE_TAX_BRACKETS[k][1]
                   /\ call_ret.breakdown[k] =
                          TaxBreakdownItem(BracketLabels[k],
                              ExactRate(BracketSlice(k, income), STATE_TAX_BRACKETS[k][2]),
                              Some(STATE_TAX_BRACKETS[k][2]))
            /\ income <= 208050 => call_ret = [value |-> Zero, breakdown |-> <<>>]

C5_Witness ==
    /\ call_fn = "calculate_state_tax"
    /\ call_arg = 1350001
    /\ Len(call_ret.breakdown) = 5
    /\ call_ret.breakdown[5].amount = [w |-> 0, f |-> 17600000]

\* C6: the wealth-tax threshold is exclusive: wealth of at most 2,000,000
\* gives 0 and no item; above it the tax is (wealth - 2,000,000) * 0.8 * 0.01
\* (8,000 for 3,000,000) and exactly one item with that positive amount is
\* appended.
C6_WealthTaxThresholdExclusive ==
    call_fn = "calculate_wealth_tax" =>
        LET wealth == call_arg
            n == (wealth - 2000000) * 8
            expected == [w |-> n \div 1000, f |-> (n % 1000) * (FRAC \div 1000)]
        IN  /\ wealth <= 2000000 => call_ret = [value |-> Zero, breakdown |-> <<>>]
            /\ wealth > 2000000 =>
                   /\ call_ret.value = expected
                   /\ FxGt(call_ret.value, Zero)
                   /\ call_ret.breakdown =
                          <<TaxBreakdownItem("Formueskatt (20% rabatt paa aksjer)",
                                             expected, Some(100))>>
            /\ wealth = 3000000 => call_ret.value = FxInt(8000)

C6_Witness ==
    /\ call_fn = "calculate_wealth_tax"
    /\ call_arg = 3000000
    /\ call_ret.value = FxInt(8000)
    /\ Len(call_ret.breakdown) = 1

\* C7: personal investment tax: with total = dividend_income + capital_gains,
\* total <= 0 gives 0 and no item; otherwise the allowance is
\* investment_wealth * 1.72%, the tax max(0, total - allowance) * 37.84%, an
\* item of amount -allowance is appended only if the allowance is positive and
\* the tax item, after it, only if the tax is positive (dividends 50,000 and
\* wealth 1,000,000: allowance 17,200, taxable 32,800).
C7_InvestmentTaxAllowance ==
    call_fn = "calculate_investment_tax" =>
        LET total == call_arg.dividend_income + call_arg.capital_gains
            a4 == call_arg.investment_wealth * 172
            allowance == [w |-> a4 \div 10000, f |-> (a4 % 10000) * 10000]
            t4 == Max(0, total * 10000 - a4)
            taxable == [w |-> t4 \div 10000, f |-> (t4 % 10000) * 10000]
            tax == SumAmounts(<<ExactRate(taxable.w, 3784),
                                [w |-> 0, f |-> (t4 % 10000) * 3784]>>)
            allowance_items ==
                IF a4 > 0
                THEN <<TaxBreakdownItem("Risikofritt fradrag", FxNeg(allowance), Some(172))>>
                ELSE <<>>
            tax_items ==
                IF FxGt(tax, Zero)
                THEN <<TaxBreakdownItem("Skatt paa aksjeutbytte og gevinst", tax, Some(3784))>>
                ELSE <<>>
        IN  /\ total <= 0 => call_ret = [value |-> Zero, breakdown |-> <<>>]
            /\ total > 0 =>
                   /\ call_ret.value = tax
                   /\ call_ret.breakdown = allowance_items \o tax_items
            /\ (call_arg.dividend_income = 50000 /\ call_arg.capital_gains = 0
                /\ call_arg.investment_wealth = 1000000) =>
                   /\ allowance = FxInt(17200)
                   /\ taxable = FxInt(32800)
                   /\ call_ret.value = [w |-> 12411, f |-> 52000000]

C7_Witness ==
    /\ call_fn = "calculate_investment_tax"
    /\ call_arg.dividend_income = 50000
    /\ call_arg.capital_gains = 0
    /\ call_arg.investment_wealth = 1000000
    /\ Len(call_ret.breakdown) = 2
    /\ call_ret.breakdown[1].amount = FxInt(-17200)
    /\ call_ret.breakdown[2].amount = [w |-> 12411, f |-> 52000000]

\* C8: in the Individual and Partnership strategies personal_allowance is
\* 69,100 and taxable_income is max(0, gross_income - 69,100 -
\* allowable_deductions), never negative; municipal_tax and county_tax are
\* taxable_income times the input rate / 100 (gross 600,000 without
\* deductions: taxable_income 530,900, municipal_tax 53,090 at 10%).
C8_IndividualTaxableIncome ==
    entity_type \in {"Individual", "Partnership"} =>
        LET r == calculation_result
            ti == Max(0, gross_income - 69100 - allowable_deductions)
        IN  /\ r.personal_allowance = FxInt(69100)
            /\ r.taxable_income = FxInt(ti)
            /\ ~FxLt(r.taxable_income, Zero)
            /\ r.municipal_tax = ExactRate(ti, municipal_tax_rate)
            /\ r.county_tax = ExactRate(ti, county_tax_rate)
            /\ (gross_income = 600000 /\ allowable_deductions = 0
                /\ municipal_tax_rate = 1000) =>
                   /\ r.taxable_income = FxInt(530900)
                   /\ r.municipal_tax = FxInt(53090)

C8_Witness ==
    /\ entity_type = "Individual"
    /\ gross_income < PERSONAL_ALLOWANCE_2024 + allowable_deductions
    /\ allowable_deductions > 0
    /\ calculation_result.taxable_income = Zero
    /\ calculation_result.municipal_tax = Zero

IsWhole(amount) == amount.f = 0

Unspaced(text) == SelectSeq(text, LAMBDA c : c # " ")

\* C9: format_currency renders a whole amount n >= 0 as its decimal digits
\* in groups of three counted from the least significant end, one space
\* between groups, no separator below 1000 and no leading or trailing space:
\* 0 -> "0", 999 -> "999", 1000 -> "1 000", 600000 -> "600 000",
\* 1234567 -> "1 234 567".
C9_FormatGroupsOfThree ==
    (call_fn = "format_currency" /\ IsWhole(call_arg) /\ call_arg.w >= 0) =>
        LET n == call_arg.w
            text == call_ret
            digits == Unspaced(text)
        IN  /\ \A i \in 1..Len(digits) : IsDigit(digits[i])
            /\ NumeralValue(digits) = n
            /\ Len(digits) = 1 \/ digits[1] # "0"
            /\ Len(text) = Len(digits) + ((Len(digits) - 1) \div 3)
            /\ \A i \in 1..Len(text) : (text[i] = " ") <=> ((Len(text) - i + 1) % 4 = 0)
            /\ n < 1000 => text = digits
            /\ n = 0 => text = <<"0">>
            /\ n = 999 => text = <<"9", "9", "9">>
            /\ n = 1000 => text = <<"1", " ", "0", "0", "0">>
            /\ n = 600000 => text = <<"6", "0", "0", " ", "0", "0", "0">>
            /\ n = 1234567 => text = <<"1", " ", "2", "3", "4", " ", "5", "6", "7">>

C9_Witness ==
    /\ call_fn = "format_currency"
    /\ call_arg = FxInt(1234567)
    /\ call_ret = <<"1", " ", "2", "3", "4", " ", "5", "6", "7">>

\* C10: format_currency formats the absolute (rounded) magnitude: for a
\* negative amount the output has only digits and separating spaces and is
\* the output for the corresponding positive amount, with no minus sign.
C10_FormatsMagnitude ==
    (call_fn = "format_currency" /\ FxLt(call_arg, Zero)) =>
        /\ \A i \in 1..Len(call_ret) : IsDigit(call_ret[i]) \/ call_ret[i] = " "
        /\ call_ret = format_currency(FxNeg(call_arg))

ItemsNamed(breakdown, description) ==
    SelectSeq(breakdown, LAMBDA item : item.description = description)

\* C11: in the Individual, Partnership and SoleProprietorship strategies a
\* church member pays church_tax = taxable_income * church_tax_rate / 100 and
\* the breakdown has exactly one church item carrying that amount and rate;
\* a non-member has church_tax exactly 0 for any church_tax_rate and no
\* church item at all, not even a zero-amount one.
C11_ChurchTaxOnlyForMembers ==
    entity_type \in PersonalTypes =>
        LET r == calculation_result
            items == ItemsNamed(r.breakdown, "Kirkeskatt")
        IN  /\ r.taxable_income.f = 0
            /\ is_church_member =>
                   /\ r.church_tax = ExactRate(r.taxable_income.w, church_tax_rate)
                   /\ items = <<TaxBreakdownItem("Kirkeskatt", r.church_tax,
                                                  Some(church_tax_rate))>>
            /\ ~is_church_member =>
                   /\ r.church_tax = Zero
                   /\ items = <<>>

C11_Witness ==
    /\ entity_type \in PersonalTypes
    /\ ~is_church_member
    /\ church_tax_rate > 0
    /\ FxGt(calculation_result.taxable_income, Zero)
    /\ calculation_result.church_tax = Zero
    /\ ItemsNamed(calculation_result.breakdown, "Kirkeskatt") = <<>>

\* C12: national insurance is computed on raw gross_income and always emits
\* exactly one breakdown item: 7.7% of gross_income for Individual and
\* Partnership, 10.9% of gross_income for SoleProprietorship, whatever
\* business_expenses and allowable_deductions are.
C12_NationalInsuranceOnGross ==
    entity_type \in PersonalTypes =>
        LET r == calculation_result
            enk == entity_type = "SoleProprietorship"
            rate == IF enk THEN 1090 ELSE 770
            label == IF enk THEN "Trygdeavgift (ENK)" ELSE "Trygdeavgift"
            other == IF enk THEN "Trygdeavgift" ELSE "Trygdeavgift (ENK)"
        IN  /\ r.national_insurance = ExactRate(gross_income, rate)
            /\ ItemsNamed(r.breakdown, label) =
                   <<TaxBreakdownItem(label, r.national_insurance, Some(rate))>>
            /\ ItemsNamed(r.breakdown, other) = <<>>

C12_Witness ==
    /\ entity_type = "SoleProprietorship"
    /\ business_expenses > 0
    /\ business_expenses < gross_income
    /\ allowable_deductions > 0
    /\ calculation_result.national_insurance = ExactRate(gross_income, 1090)
    /\ FxGt(calculation_result.national_insurance, Zero)

EnkTaxableIncome == Max(0, Max(0, gross_income - business_expenses) - allowable_deductions)

\* C13 as stated: in the SoleProprietorship strategy business_profit =
\* max(0, gross_income - business_expenses) and taxable_income =
\* max(0, business_profit - allowable_deductions); when business_expenses >=
\* gross_income, taxable_income is 0 regardless of allowable_deductions, and
\* taxable_income is never negative.
C13_EnkZeroRegardlessOfDeductions ==
    entity_type = "SoleProprietorship" =>
        LET r == calculation_result
        IN  /\ r.taxable_income = FxInt(EnkTaxableIncome)
            /\ ~FxLt(r.taxable_income, Zero)
            /\ business_expenses >= gross_income => r.taxable_income = Zero

\* C13: in the SoleProprietorship strategy the two subtractions are clamped
\* independently, taxable_income = max(0, max(0, gross_income -
\* business_expenses) - allowable_deductions), and it is never negative; when
\* business_expenses >= gross_income and allowable_deductions >= 0,
\* taxable_income is 0.
C13_EnkIndependentClamps ==
    entity_type = "SoleProprietorship" =>
        LET r == calculation_result
        IN  /\ r.taxable_income = FxInt(EnkTaxableIncome)
            /\ ~FxLt(r.taxable_income, Zero)
            /\ (business_expenses >= gross_income /\ allowable_deductions >= 0) =>
                   r.taxable_income = Zero

C13_Witness ==
    /\ entity_type = "SoleProprietorship"
    /\ business_expenses > gross_income
    /\ gross_income > 0
    /\ allowable_deductions > 0
    /\ calculation_result.taxable_income = Zero

\* n * pct / 100 for a whole n
ExactPercent(n, pct) ==
    [w |-> (n * pct) \div 100, f |-> ((n * pct) % 100) * (FRAC \div 100)]

\* C14: in the Corporation strategy taxable_income = max(0, gross_income -
\* allowable_deductions) and corporate_tax = 22% of it; the breakdown starts
\* with the deduction item (amount -allowable_deductions) if and only if
\* allowable_deductions > 0, followed by the corporate-tax item (rate 22),
\* which is present for every input, also with amount 0.
C14_CorporateTaxAlwaysItemised ==
    entity_type = "Corporation" =>
        LET r == calculation_result
            ti == Max(0, gross_income - allowable_deductions)
            deduction == IF allowable_deductions > 0
                         THEN <<TaxBreakdownItem("Fradrag", FxInt(0 - allowable_deductions),
                                                 None)>>
                         ELSE <<>>
            prefix == deduction \o
                      <<TaxBreakdownItem("Selskapsskatt", r.corporate_tax, Some(2200))>>
        IN  /\ r.taxable_income = FxInt(ti)
            /\ r.corporate_tax = ExactPercent(ti, 22)
            /\ Len(r.breakdown) >= Len(prefix)
            /\ SubSeq(r.breakdown, 1, Len(prefix)) = prefix
            /\ ItemsNamed(r.breakdown, "Fradrag") = deduction
            /\ Len(ItemsNamed(r.breakdown, "Selskapsskatt")) = 1

C14_Witness ==
    /\ entity_type = "Corporation"
    /\ allowable_deductions > gross_income
    /\ gross_income > 0
    /\ calculation_result.taxable_income = Zero
    /\ calculation_result.breakdown[2] = TaxBreakdownItem("Selskapsskatt", Zero, Some(2200))

\* C15: corporate investment tax: with total = dividend_income +
\* capital_gains the tax is total * 0.03 * 0.22 when total > 0 and 0
\* otherwise; the item is appended only if the tax is positive and carries
\* the rate 0.66; no risk-free allowance is applied, so the result does not
\* depend on investment_wealth.
C15_CorporateInvestmentTax ==
    call_fn = "calculate_corporate_investment_tax" =>
        LET total == call_arg.dividend_income + call_arg.capital_gains
            tax == ExactRate(total, 66)
        IN  /\ total <= 0 => call_ret = [value |-> Zero, breakdown |-> <<>>]
            /\ total > 0 =>
                   /\ call_ret.value = tax
                   /\ FxGt(tax, Zero)
                   /\ call_ret.breakdown =
                          <<TaxBreakdownItem("Deltakermodellen - 3% skattepliktig", tax,
                                             Some(66))>>
            /\ call_ret = calculate_corporate_investment_tax(
                              InvestmentInput(call_arg.dividend_income,
                                              call_arg.capital_gains, 0), <<>>)

C15_Witness ==
    /\ call_fn = "calculate_corporate_investment_tax"
    /\ call_arg.dividend_income = 50000
    /\ call_arg.capital_gains = 0
    /\ call_arg.investment_wealth = 3000000
    /\ call_ret.value = FxInt(330)
    /\ Len(call_ret.breakdown) = 1

StateTaxItems(breakdown) ==
    SelectSeq(breakdown,
              LAMBDA item : \E i \in 1..Len(BracketLabels) : item.description = BracketLabels[i])

\* C16: in the Individual and SoleProprietorship strategies state tax is
\* computed from gross_income, not taxable_income: state_tax and the
\* state-tax breakdown items are the marginal sweep over gross_income,
\* whatever allowable_deductions and business_expenses are, so state_tax can
\* be positive while taxable_income is 0.
C16_StateTaxFromGross ==
    entity_type \in {"Individual", "SoleProprietorship"} =>
        LET r == calculation_result
            n == Cardinality({i \in 1..Len(STATE_TAX_BRACKETS) :
                                 gross_income > STATE_TAX_BRACKETS[i][1]})
            items == StateTaxItems(r.breakdown)
        IN  /\ r.state_tax =
                   SumAmounts([i \in 1..Len(STATE_TAX_BRACKETS) |->
                       ExactRate(BracketSlice(i, gross_income), STATE_TAX_BRACKETS[i][2])])
            /\ Len(items) = n
            /\ \A k \in 1..n :
                   items[k] = TaxBreakdownItem(BracketLabels[k],
                                  ExactRate(BracketSlice(k, gross_income),
                                            STATE_TAX_BRACKETS[k][2]),
                                  Some(STATE_TAX_BRACKETS[k][2]))

C16_Witness ==
    /\ entity_type \in {"Individual", "SoleProprietorship"}
    /\ allowable_deductions > gross_income
    /\ calculation_result.taxable_income = Zero
    /\ FxGt(calculation_result.state_tax, Zero)
    /\ Len(StateTaxItems(calculation_result.breakdown)) = 2

IndividualOrder ==
    <<"Personfradrag", "Fradrag", "Kommuneskatt", "Fylkeskatt", "Kirkeskatt">> \o
    BracketLabels \o
    <<"Trygdeavgift", "Risikofritt fradrag", "Skatt paa aksjeutbytte og gevinst",
      "Formueskatt (20% rabatt paa aksjer)">>

\* whether the current inputs make the Individual strategy emit the item
IndividualEmits(description) ==
    LET total == dividend_income + capital_gains
    IN  CASE description = "Fradrag" -> allowable_deductions > 0
          [] description = "Kirkeskatt" -> is_church_member
          [] description = "Risikofritt fradrag" -> total > 0 /\ investment_wealth > 0
          [] description = "Skatt paa aksjeutbytte og gevinst" ->
                 total > 0 /\ total * 10000 > investment_wealth * 172
          [] description = "Formueskatt (20% rabatt paa aksjer)" ->
                 investment_wealth > 2000000
          [] \E i \in 1..Len(BracketLabels) : description = BracketLabels[i] ->
                 \E i \in 1..Len(BracketLabels) :
                     /\ description = BracketLabels[i]
                     /\ gross_income > STATE_TAX_BRACKETS[i][1]
          [] OTHER -> TRUE

\* C17: the Individual breakdown has a fixed order for every input:
\* personal-allowance item (amount -69,100, no rate), the deduction item iff
\* allowable_deductions > 0, municipal, county, church (iff member), the
\* state-tax bracket items in ascending threshold order, national insurance,
\* risk-free allowance item, investment-tax item and wealth-tax item last;
\* the items an input does not produce are left out and the others keep
\* their order.
C17_IndividualBreakdownOrder ==
    entity_type = "Individual" =>
        LET b == calculation_result.breakdown
        IN  /\ [k \in 1..Len(b) |-> b[k].description] =
                   SelectSeq(IndividualOrder, IndividualEmits)
            /\ b[1] = TaxBreakdownItem("Personfradrag", FxInt(-69100), None)
            /\ allowable_deductions > 0 =>
                   b[2] = TaxBreakdownItem("Fradrag", FxInt(0 - allowable_deductions), None)

C17_Witness ==
    /\ entity_type = "Individual"
    /\ Len(calculation_result.breakdown) = Len(IndividualOrder)
    /\ calculation_result.breakdown[Len(IndividualOrder)].description =
           "Formueskatt (20% rabatt paa aksjer)"
    /\ calculation_result.breakdown[Len(IndividualOrder) - 1].description =
           "Skatt paa aksjeutbytte og gevinst"

\* C18: the SoleProprietorship breakdown always starts with the zero-amount,
\* rate-less sole-proprietorship marker; the business-expense item (amount
\* -business_expenses) is present if and only if business_expenses > 0 and
\* is then the second element, before the allowable-deductions item.
C18_EnkMarkerThenExpenses ==
    entity_type = "SoleProprietorship" =>
        LET b == calculation_result.breakdown
            expenses == TaxBreakdownItem("Driftskostnader", FxInt(0 - business_expenses), None)
            deductions == TaxBreakdownItem("Fradrag", FxInt(0 - allowable_deductions), None)
        IN  /\ b[1] = TaxBreakdownItem("ENK - Enkeltpersonforetak", Zero, None)
            /\ ItemsNamed(b, "Driftskostnader") =
                   IF business_expenses > 0 THEN <<expenses>> ELSE <<>>
            /\ business_expenses > 0 => b[2] = expenses
            /\ ItemsNamed(b, "Fradrag") =
                   IF allowable_deductions > 0 THEN <<deductions>> ELSE <<>>
            /\ (business_expenses > 0 /\ allowable_deductions > 0) => b[3] = deductions

C18_Witness ==
    /\ entity_type = "SoleProprietorship"
    /\ business_expenses > 0
    /\ allowable_deductions > 0
    /\ calculation_result.breakdown[2].description = "Driftskostnader"
    /\ calculation_result.breakdown[3].description = "Fradrag"

DeductionLabels == {"Personfradrag", "Fradrag", "Driftskostnader", "Risikofritt fradrag"}

MarkerLabels ==
    {"ENK - Enkeltpersonforetak", "Deltakerlignet selskap - beskattes som personinntekt"}

\* tax items pushed for every input, whatever their amount
UnconditionalTaxLabels ==
    {"Kommuneskatt", "Fylkeskatt", "Kirkeskatt", "Trygdeavgift", "Trygdeavgift (ENK)",
     "Selskapsskatt"}

\* tax items pushed only with a positive amount
PositiveTaxLabels ==
    {BracketLabels[i] : i \in 1..Len(BracketLabels)} \cup
    {"Skatt paa aksjeutbytte og gevinst", "Formueskatt (20% rabatt paa aksjer)",
     "Deltakermodellen - 3% skattepliktig"}

NonNegativeInputs ==
    /\ gross_income >= 0
    /\ allowable_deductions >= 0
    /\ business_expenses >= 0
    /\ dividend_income >= 0
    /\ capital_gains >= 0
    /\ investment_wealth >= 0
    /\ municipal_tax_rate >= 0
    /\ county_tax_rate >= 0
    /\ church_tax_rate >= 0

\* C19 as stated: for every entity type and every input with non-negative
\* amounts and rates, an item with negative amount is a deduction/allowance,
\* an item with positive amount is a tax owed, and an item with amount zero
\* is an informational marker (the Partnership or SoleProprietorship marker).
C19_ZeroAmountIsMarker ==
    NonNegativeInputs =>
        LET b == calculation_result.breakdown
        IN  \A k \in 1..Len(b) :
            LET item == b[k]
            IN  /\ FxLt(item.amount, Zero) => item.description \in DeductionLabels
                /\ FxGt(item.amount, Zero) =>
                       item.description \in UnconditionalTaxLabels \cup PositiveTaxLabels
                /\ item.amount = Zero => item.description \in MarkerLabels

\* C19: for every entity type and every input with non-negative amounts and
\* rates, an item with negative amount is a deduction/allowance and an item
\* with positive amount is a tax owed; an item with amount zero is either an
\* informational marker or one of the tax items that are pushed for every
\* input (municipal, county, church, national insurance, corporate tax) whose
\* computed amount is zero. Deduction items are always negative and markers
\* always zero.
C19_SignConvention ==
    NonNegativeInputs =>
        LET b == calculation_result.breakdown
        IN  \A k \in 1..Len(b) :
            LET item == b[k]
            IN  /\ FxLt(item.amount, Zero) <=> item.description \in DeductionLabels
                /\ FxGt(item.amount, Zero) =>
                       item.description \in UnconditionalTaxLabels \cup PositiveTaxLabels
                /\ item.amount = Zero =>
                       item.description \in MarkerLabels \cup UnconditionalTaxLabels
                /\ item.description \in MarkerLabels => item.amount = Zero
                /\ item.description \in PositiveTaxLabels => FxGt(item.amount, Zero)

C19_Witness ==
    /\ NonNegativeInputs
    /\ entity_type = "Individual"
    /\ county_tax_rate = 0
    /\ FxGt(calculation_result.taxable_income, Zero)
    /\ ItemsNamed(calculation_result.breakdown, "Fylkeskatt") =
           <<TaxBreakdownItem("Fylkeskatt", Zero, Some(0))>>
    /\ FxGt(calculation_result.municipal_tax, Zero)

\* C20: TaxResults gives every negative-amount item the deduction class and
\* every positive-amount item the tax class; the substring checks on the
\* description leave only zero-amount markers without a class.
C20_PositiveItemsStyledAsTax ==
    LET b == calculation_result.breakdown
    IN  \A k \in 1..Len(b) :
        LET item == b[k]
        IN  /\ FxLt(item.amount, Zero) => item_class(item) = "deduction"
            /\ FxGt(item.amount, Zero) => item_class(item) = "tax"

\* the input record of a variant: the current field values with the given
\* entity type, membership, wealth and expenses
VariantInput(e, member, wealth, expenses) ==
    [gross_income |-> gross_income,
     entity_type |-> e,
     municipal_tax_rate |-> municipal_tax_rate,
     county_tax_rate |-> county_tax_rate,
     church_tax_rate |-> church_tax_rate,
     is_church_member |-> member,
     allowable_deductions |-> allowable_deductions,
     dividend_income |-> dividend_income,
     capital_gains |-> capital_gains,
     investment_wealth |-> wealth,
     business_expenses |-> expenses]

\* C21: the component computes five variants from the same current field
\* values: the selected entity from the raw values, the Corporation
\* comparison always with is_church_member = false, investment_wealth = 0
\* and business_expenses = 0, the Individual and Partnership comparisons
\* always with business_expenses = 0, and the SoleProprietorship comparison
\* from the raw values.
C21_ComparisonInputsZeroed ==
    /\ calculation_input =
           VariantInput(entity_type, is_church_member, investment_wealth, business_expenses)
    /\ individual_input =
           VariantInput("Individual", is_church_member, investment_wealth, 0)
    /\ corporate_input = VariantInput("Corporation", FALSE, 0, 0)
    /\ partnership_input =
           VariantInput("Partnership", is_church_member, investment_wealth, 0)
    /\ enk_input =
           VariantInput("SoleProprietorship", is_church_member, investment_wealth,
                        business_expenses)
    /\ LET r == corporate_result
       IN  r.church_tax = Zero /\ r.wealth_tax = Zero

C21_Witness ==
    /\ is_church_member
    /\ investment_wealth > WEALTH_TAX_THRESHOLD_2024
    /\ business_expenses > 0
    /\ corporate_input.is_church_member = FALSE
    /\ corporate_input.investment_wealth = 0
    /\ corporate_input.business_expenses = 0
    /\ individual_input.business_expenses = 0
    /\ partnership_input.business_expenses = 0
    /\ enk_input.business_expenses = business_expenses

\* the current field values handed to the strategy of entity type e
RawInput(e) == [calculation_input EXCEPT !.entity_type = e]

\* the amounts of a result that are rendered with format_currency
RenderedAmounts(result) ==
    {result.gross_income, result.total_tax, result.net_income} \cup
    {result.breakdown[k].amount : k \in 1..Len(result.breakdown)}

\* C22: the engine of lib.rs and the engine of tax_calculator.rs agree: for
\* every input and entity type calculate_tax returns the same result (totals
\* and the breakdown sequence with its descriptions, amounts, rates and
\* order), and format_currency returns the same string.  Stated on the input
\* of the selected entity type: the reachable states pair every entity type
\* with every combination of field values.
C22_EngineCopiesAgree ==
    LET input == calculation_input
        r == calculate_tax(input)
    IN  /\ lib_calculate_tax(input) = r
        /\ \A amount \in RenderedAmounts(r) :
               lib_format_currency(amount) = format_currency(amount)

C22_Witness ==
    /\ entity_type = "SoleProprietorship"
    /\ business_expenses > 0
    /\ dividend_income > 0
    /\ investment_wealth > WEALTH_TAX_THRESHOLD_2024
    /\ Len(lib_calculate_tax(calculation_input).breakdown) >= 10
    /\ lib_calculate_tax(calculation_input) = calculation_result
    /\ FxGt(calculation_result.total_tax, Zero)

\* the amounts of the breakdown items with positive amount, in order
PositiveAmounts(breakdown) ==
    LET positive == SelectSeq(breakdown, LAMBDA item : FxGt(item.amount, Zero))
    IN  [k \in 1..Len(positive) |-> positive[k].amount]

\* C23: for every entity type and every input whose amounts and rates are
\* all non-negative, total_tax is the sum of the amounts of the breakdown
\* items with positive amount.  Stated on the result of the selected entity
\* type, which ranges over all four.
C23_TotalTaxIsSumOfPositiveItems ==
    NonNegativeInputs =>
        LET r == calculation_result
        IN  r.total_tax = SumAmounts(PositiveAmounts(r.breakdown))

C23_Witness ==
    /\ NonNegativeInputs
    /\ entity_type = "SoleProprietorship"
    /\ FxGt(calculation_result.investment_tax, Zero)
    /\ FxGt(calculation_result.wealth_tax, Zero)
    /\ FxGt(calculation_result.state_tax, Zero)
    /\ Len(PositiveAmounts(calculation_result.breakdown)) >= 7
    /\ calculation_result.total_tax =
           SumAmounts(PositiveAmounts(calculation_result.breakdown))

\* an input with the fields the Corporation strategy does not honor cleared
WithoutPersonalFields(input) ==
    [input EXCEPT !.municipal_tax_rate = 0, !.county_tax_rate = 0, !.church_tax_rate = 0,
                  !.is_church_member = FALSE, !.investment_wealth = 0,
                  !.business_expenses = 0]

\* C24: fields an entity type does not honor do not influence its result:
\* the Corporation result is the same as for the input with
\* municipal_tax_rate, county_tax_rate, church_tax_rate, is_church_member,
\* investment_wealth and business_expenses cleared, so two inputs differing
\* only there give identical Corporation results; the Individual and
\* Partnership results are the same as for business_expenses = 0.  Stated on
\* the input of the selected entity type, which ranges over all four.
C24_UnhonoredFieldsIgnored ==
    LET input == calculation_input
    IN  /\ entity_type = "Corporation" =>
               calculate_tax(input) = calculate_tax(WithoutPersonalFields(input))
        /\ entity_type \in {"Individual", "Partnership"} =>
               calculate_tax(input) =
                   calculate_tax([input EXCEPT !.business_expenses = 0])

C24_Witness ==
    /\ entity_type = "Corporation"
    /\ business_expenses > 0
    /\ investment_wealth > WEALTH_TAX_THRESHOLD_2024
    /\ is_church_member
    /\ municipal_tax_rate > 0
    /\ RawInput("Corporation") # WithoutPersonalFields(RawInput("Corporation"))
    /\ calculate_tax(RawInput("Corporation")) = corporate_result
    /\ calculate_tax(RawInput("Individual")) = individual_result

\* the comparison card of the selected entity type
MatchingCard ==
    CASE entity_type = "Individual" -> individual_result
      [] entity_type = "Corporation" -> corporate_result
      [] entity_type = "Partnership" -> partnership_result
      [] entity_type = "SoleProprietorship" -> enk_result

\* C25: after any sequence of tab clicks and field edits the main result,
\* computed for the selected entity type from the raw field values, equals
\* the comparison-card result of the same entity type, computed with the
\* inapplicable fields zeroed; in particular total_tax, net_income and
\* effective_tax_rate are the same in both.
C25_MainEqualsMatchingCard ==
    LET main == calculation_result
        card == MatchingCard
    IN  /\ main = card
        /\ main.total_tax = card.total_tax
        /\ main.net_income = card.net_income
        /\ main.effective_tax_rate = card.effective_tax_rate

C25_Witness ==
    /\ entity_type = "Corporation"
    /\ is_church_member
    /\ investment_wealth > WEALTH_TAX_THRESHOLD_2024
    /\ business_expenses > 0
    /\ calculation_input # corporate_input
    /\ calculation_result = corporate_result
    /\ FxGt(calculation_result.total_tax, Zero)

\* C26: active_tab and entity_type are equal initially and after every tab
\* click, which sets both and changes no other field; hence the fields shown
\* for the active tab are those of the entity type of the main calculation:
\* business expenses can be edited only under SoleProprietorship, investment
\* wealth, church membership and church rate only outside Corporation.
C26_ActiveTabIsEntityType ==
    /\ [](active_tab = entity_type)
    /\ [][/\ (active_tab' # active_tab \/ entity_type' # entity_type) =>
                 /\ active_tab' = entity_type'
                 /\ UNCHANGED <<gross_income, municipal_tax_rate, county_tax_rate,
                                church_tax_rate, is_church_member, allowable_deductions,
                                dividend_income, capital_gains, investment_wealth,
                                business_expenses>>
          /\ business_expenses' # business_expenses => entity_type = "SoleProprietorship"
          /\ (investment_wealth' # investment_wealth
              \/ is_church_member' # is_church_member
              \/ church_tax_rate' # church_tax_rate) => entity_type # "Corporation"]_vars

C26_Witness ==
    /\ active_tab = "Corporation"
    /\ entity_type = "Corporation"
    /\ business_expenses > 0
    /\ investment_wealth > 0
    /\ ~is_church_member

\* the numbers the parsable texts of a field stand for
ParsedValues(texts, unit) ==
    {ParseF64(text).value \div unit : text \in {t \in texts : ParseF64(t).ok}}

GrossIncomeValues == ParsedValues(GrossIncomeTexts, 100)

DeductionValues == ParsedValues(DeductionTexts, 100)

BusinessExpenseValues == ParsedValues(BusinessExpenseTexts, 100)

DividendValues == ParsedValues(DividendTexts, 100)

CapitalGainValues == ParsedValues(CapitalGainTexts, 100)

WealthValues == ParsedValues(WealthTexts, 100)

MunicipalRateValues == ParsedValues(MunicipalRateTexts, 1)

CountyRateValues == ParsedValues(CountyRateTexts, 1)

ChurchRateValues == ParsedValues(ChurchRateTexts, 1)

BadTextsDoNotParse == \A text \in BadTexts : ~ParseF64(text).ok

\* C27: an edit of a numeric field whose text does not parse as a number
\* changes no signal, so the result is the one before the edit; an edit
\* that parses sets that field's signal to the parsed number and changes no
\* other signal: a step that changes a field's signal is no edit with an
\* unparsable text, sets a number some parsable text of the field stands
\* for, and changes no second signal.
C27_UnparsableEditIgnored ==
    /\ []BadTextsDoNotParse
    /\ [][/\ active_tab' = active_tab =>
                 Cardinality({i \in 1..Len(signals) : signals'[i] # signals[i]}) <= 1
          /\ gross_income' # gross_income =>
                 /\ gross_income' \in GrossIncomeValues
                 /\ \A text \in BadTexts : ~InputGrossIncome(text)
          /\ allowable_deductions' # allowable_deductions =>
                 /\ allowable_deductions' \in DeductionValues
                 /\ \A text \in BadTexts : ~InputDeductions(text)
          /\ business_expenses' # business_expenses =>
                 /\ business_expenses' \in BusinessExpenseValues
                 /\ \A text \in BadTexts : ~InputBusinessExpenses(text)
          /\ dividend_income' # dividend_income =>
                 /\ dividend_income' \in DividendValues
                 /\ \A text \in BadTexts : ~InputDividendIncome(text)
          /\ capital_gains' # capital_gains =>
                 /\ capital_gains' \in CapitalGainValues
                 /\ \A text \in BadTexts : ~InputCapitalGains(text)
          /\ investment_wealth' # investment_wealth =>
                 /\ investment_wealth' \in WealthValues
                 /\ \A text \in BadTexts : ~InputInvestmentWealth(text)
          /\ municipal_tax_rate' # municipal_tax_rate =>
                 /\ municipal_tax_rate' \in MunicipalRateValues
                 /\ \A text \in BadTexts : ~InputMunicipalTaxRate(text)
          /\ county_tax_rate' # county_tax_rate =>
                 /\ county_tax_rate' \in CountyRateValues
                 /\ \A text \in BadTexts : ~InputCountyTaxRate(text)
          /\ church_tax_rate' # church_tax_rate =>
                 /\ church_tax_rate' \in ChurchRateValues
                 /\ \A text \in BadTexts : ~InputChurchTaxRate(text)]_vars

C27_Witness ==
    /\ gross_income = 208051
    /\ allowable_deductions = 100000
    /\ \A text \in BadTexts :
           /\ ~ParseF64(text).ok
           /\ Parsed(text, gross_income, 100) = gross_income
           /\ Parsed(text, allowable_deductions, 100) = allowable_deductions

\* the values of the input signals when the component is created
InitialSignals ==
    /\ gross_income = 600000
    /\ entity_type = "Individual"
    /\ municipal_tax_rate = 1000
    /\ county_tax_rate = 1140
    /\ church_tax_rate = 130
    /\ is_church_member = TRUE
    /\ allowable_deductions = 0
    /\ dividend_income = 0
    /\ capital_gains = 0
    /\ investment_wealth = 0
    /\ business_expenses = 0

InitialResult ==
    lib_calculate_tax([gross_income |-> 600000, entity_type |-> "Individual",
                       municipal_tax_rate |-> 1000, county_tax_rate |-> 1140,
                       church_tax_rate |-> 130, is_church_member |-> TRUE,
                       allowable_deductions |-> 0, dividend_income |-> 0,
                       capital_gains |-> 0, investment_wealth |-> 0,
                       business_expenses |-> 0])

\* C28: in the App component the reset action, from any reachable state,
\* leaves every input signal at its initial value (gross_income 600000,
\* entity_type Individual, rates 10 / 11.4 / 1.3, is_church_member true, all
\* other amounts 0), so the result after reset is the result of the initial
\* state; the state after a reset does not depend on the state before it, so
\* a second reset changes nothing.
C28_ResetRestoresInitialState ==
    /\ [](call_fn = "reset_calculator" =>
              /\ InitialSignals
              /\ App_calculation_result = InitialResult)
    /\ [][App_reset_calculator => InitialSignals']_vars
    /\ [][(call_fn = "reset_calculator" /\ App_reset_calculator) => UNCHANGED vars]_vars

C28_Witness ==
    /\ call_fn = "reset_calculator"
    /\ InitialSignals
    /\ App_calculation_result = InitialResult
    /\ FxGt(App_calculation_result.total_tax, Zero)

StateTaxOf(income) == calculate_state_tax(FxInt(income), <<>>).value

\* C29: state tax is monotone and has no jump at a bracket threshold: for
\* gross incomes g1 <= g2 the tax of g1 is at most the tax of g2, and one
\* more unit of gross income raises the tax by at most 17.6% of the unit.
C29_StateTaxMonotoneNoJump ==
    call_fn = "calculate_state_tax" =>
        LET g == call_arg
        IN  /\ call_ret.value = StateTaxOf(g)
            /\ \A g2 \in StateTaxIncomes : g <= g2 => FxLe(call_ret.value, StateTaxOf(g2))
            /\ FxLe(call_ret.value, StateTaxOf(g + 1))
            /\ FxLe(FxSub(StateTaxOf(g + 1), call_ret.value), [w |-> 0, f |-> 17600000])

C29_Witness ==
    /\ call_fn = "calculate_state_tax"
    /\ call_arg = 292850
    /\ FxGt(call_ret.value, Zero)
    /\ FxSub(StateTaxOf(292851), call_ret.value) = [w |-> 0, f |-> 4000000]

PersonalAllowanceItems(result) == ItemsNamed(result.breakdown, "Personfradrag")

\* C30: the personal allowance is applied only in the Individual and
\* Partnership strategies: their result has personal_allowance = 69,100 and
\* one personal-allowance item for every input; the SoleProprietorship and
\* Corporation results have personal_allowance = 0, no personal-allowance
\* item, and a taxable_income computed without subtracting 69,100, so with
\* business_expenses = 0 and gross_income > allowable_deductions the
\* SoleProprietorship taxable_income exceeds the Individual one.
C30_AllowanceOnlyForPersons ==
    LET individual == individual_result
        partnership == partnership_result
        enk == enk_result
        corporate == corporate_result
    IN  /\ \A r \in {individual, partnership} :
               /\ r.personal_allowance = FxInt(69100)
               /\ PersonalAllowanceItems(r) =
                      <<TaxBreakdownItem("Personfradrag", FxInt(-69100), None)>>
        /\ \A r \in {enk, corporate} :
               /\ r.personal_allowance = Zero
               /\ PersonalAllowanceItems(r) = <<>>
        /\ enk.taxable_income = FxInt(EnkTaxableIncome)
        /\ corporate.taxable_income = FxInt(Max(0, gross_income - allowable_deductions))
        /\ (business_expenses = 0 /\ gross_income > allowable_deductions) =>
               FxGt(enk.taxable_income, individual.taxable_income)

C30_Witness ==
    /\ business_expenses = 0
    /\ gross_income > allowable_deductions + 69100
    /\ enk_result.personal_allowance = Zero
    /\ individual_result.personal_allowance = FxInt(69100)
    /\ FxGt(individual_result.taxable_income, Zero)
    /\ FxSub(enk_result.taxable_income, individual_result.taxable_income) = FxInt(69100)

====
